---- MODULE Spec2Model ----
(***************************************************************************)
(* Model of the text-structuring and rendering pipeline of the ebook       *)
(* formatter: TextFormatter (utils/textFormatter), the legacy parseText    *)
(* (utils/textParser) and ExportUtility (utils/exportUtility).             *)
(*                                                                         *)
(* A JavaScript string is a sequence of characters; each character is a    *)
(* one-character TLA+ string, except the non-ASCII characters, which are   *)
(* named: "LDQUO" "RDQUO" (U+201C/D), "LSQUO" "RSQUO" (U+2018/9),          *)
(* "EMDASH" (U+2014), "ENDASH" (U+2013), "ELLIPSIS" (U+2026) and "ESZETT"  *)
(* (U+00DF, whose upper-case form is the two characters "SS").             *)
(***************************************************************************)
EXTENDS Integers, Sequences, FiniteSets, TLC

(***************************************************************************)
(* Characters and the JavaScript string primitives the code uses.          *)
(***************************************************************************)
LowerLetters ==
  <<"a", "b", "c", "d", "e", "f", "g", "h", "i", "j", "k", "l", "m",
    "n", "o", "p", "q", "r", "s", "t", "u", "v", "w", "x", "y", "z">>

UpperLetters ==
  <<"A", "B", "C", "D", "E", "F", "G", "H", "I", "J", "K", "L", "M",
    "N", "O", "P", "Q", "R", "S", "T", "U", "V", "W", "X", "Y", "Z">>

Digits == {"0", "1", "2", "3", "4", "5", "6", "7", "8", "9"}

\* the characters the regular-expression class \s and String.trim() remove
IsWhitespace(c) == c \in {" ", "\t", "\n", "\r"}

\* the characters the regular-expression atom . matches (no line terminator)
DotMatches(c) == c \notin {"\n", "\r"}

IsLower(c) == \E i \in 1..26 : LowerLetters[i] = c
IsUpper(c) == \E i \in 1..26 : UpperLetters[i] = c

LetterIndex(c) ==
  CHOOSE i \in 1..26 : LowerLetters[i] = c \/ UpperLetters[i] = c

\* String.prototype.toUpperCase on one character: a string, since the
\* upper-case form of U+00DF is "SS"
UpperOfChar(c) ==
  IF IsLower(c) THEN <<UpperLetters[LetterIndex(c)]>>
  ELSE IF c = "ESZETT" THEN <<"S", "S">>
  ELSE <<c>>

LowerOfChar(c) == IF IsUpper(c) THEN LowerLetters[LetterIndex(c)] ELSE c

\* s.substring(from - 1): the suffix of s that starts at position from (1-based)
Suffix(s, from) == SubSeq(s, from, Len(s))

\* the least element of a non-empty set of integers
Min(S) == CHOOSE m \in S : \A n \in S : m <= n

\* String.prototype.toUpperCase (the halving keeps the evaluation shallow)
RECURSIVE toUpperCase(_)
toUpperCase(s) ==
  IF s = <<>> THEN <<>>
  ELSE IF Len(s) = 1 THEN UpperOfChar(s[1])
  ELSE toUpperCase(SubSeq(s, 1, Len(s) \div 2)) \o toUpperCase(Suffix(s, Len(s) \div 2 + 1))

toLowerCase(s) == [i \in 1..Len(s) |-> LowerOfChar(s[i])]

startsWith(s, p) == Len(p) <= Len(s) /\ SubSeq(s, 1, Len(p)) = p

endsWith(s, p) == Len(p) <= Len(s) /\ SubSeq(s, Len(s) - Len(p) + 1, Len(s)) = p

\* p occurs in s at position i (1-based)
MatchesAt(s, i, p) == i + Len(p) - 1 <= Len(s) /\ SubSeq(s, i, i + Len(p) - 1) = p

includes(s, p) == \E i \in 1..(Len(s) + 1) : MatchesAt(s, i, p)

\* String.prototype.trim: from the first to the last non-whitespace character
trim(s) ==
  LET kept == {i \in 1..Len(s) : ~IsWhitespace(s[i])}
  IN  IF kept = {} THEN <<>>
      ELSE SubSeq(s, Min(kept), CHOOSE m \in kept : \A n \in kept : n <= m)

\* String.prototype.split(sep) for a one-character separator: a sequence of
\* strings, one more than the number of separators in s
split(s, sep) ==
  LET seps == {i \in 1..Len(s) : s[i] = sep}
      \* the position of the k-th separator; 0 and Len(s) + 1 bound the string
      SepPos(k) == IF k = 0 THEN 0
                   ELSE IF k > Cardinality(seps) THEN Len(s) + 1
                   ELSE CHOOSE p \in seps : Cardinality({q \in seps : q < p}) = k - 1
  IN  [k \in 1..(Cardinality(seps) + 1) |-> SubSeq(s, SepPos(k - 1) + 1, SepPos(k) - 1)]

\* String.prototype.repeat for a one-character string
repeat(c, n) == [i \in 1..n |-> c]

\* Array.prototype.join
RECURSIVE join(_, _)
join(parts, sep) ==
  IF parts = <<>> THEN <<>>
  ELSE IF Len(parts) = 1 THEN parts[1]
  ELSE parts[1] \o sep \o join(Tail(parts), sep)

\* the value JavaScript calls undefined, for a string-valued field
Undefined == <<"UNDEFINED">>

(***************************************************************************)
(* TextFormatter.detectChapter: the five heading patterns, matched as the  *)
(* regular-expression engine matches them.                                 *)
(***************************************************************************)
\* the first position at or after i that holds no whitespace (\s* is greedy)
SkipWhitespace(s, i) ==
  Min({k \in i..(Len(s) + 1) : k > Len(s) \/ ~IsWhitespace(s[k])} \cup {Len(s) + 1})

\* the first position at or after i that holds no character of class
SkipClass(s, i, class) ==
  Min({k \in i..(Len(s) + 1) : k > Len(s) \/ s[k] \notin class} \cup {Len(s) + 1})

\* [ivxlcdm] under the i flag
RomanChars == {"i", "v", "x", "l", "c", "d", "m", "I", "V", "X", "L", "C", "D", "M"}

\* [:\-–—]
SeparatorChars == {":", "-", "ENDASH", "EMDASH"}

W_chapter == <<"c", "h", "a", "p", "t", "e", "r">>
W_part == <<"p", "a", "r", "t">>
W_section == <<"s", "e", "c", "t", "i", "o", "n">>

NumberWordsTen ==
  << <<"o", "n", "e">>, <<"t", "w", "o">>, <<"t", "h", "r", "e", "e">>,
     <<"f", "o", "u", "r">>, <<"f", "i", "v", "e">>, <<"s", "i", "x">>,
     <<"s", "e", "v", "e", "n">>, <<"e", "i", "g", "h", "t">>,
     <<"n", "i", "n", "e">>, <<"t", "e", "n">> >>

NumberWordsThree == SubSeq(NumberWordsTen, 1, 3)

\* p occurs in s at position i, letter case ignored (p is lower-case)
MatchesAtCI(s, i, p) ==
  i + Len(p) - 1 <= Len(s) /\ toLowerCase(SubSeq(s, i, i + Len(p) - 1)) = p

\* keyword\s+ at the start of s: the position after the whitespace, 0 if no match
KeywordEnd(s, keyword) ==
  IF MatchesAtCI(s, 1, keyword)
     /\ Len(keyword) + 1 <= Len(s) /\ IsWhitespace(s[Len(keyword) + 1])
  THEN SkipWhitespace(s, Len(keyword) + 1)
  ELSE 0

\* the alternatives of the number group, each as the position after the
\* token that starts at i (0: the alternative does not match at i)
DigitsEnd(s, i) == IF i <= Len(s) /\ s[i] \in Digits THEN SkipClass(s, i, Digits) ELSE 0

RomanEnd(s, i) == IF i <= Len(s) /\ s[i] \in RomanChars THEN SkipClass(s, i, RomanChars) ELSE 0

WordEnd(s, i, words) ==
  IF \E k \in 1..Len(words) : MatchesAtCI(s, i, words[k])
  THEN i + Len(words[CHOOSE k \in 1..Len(words) : MatchesAtCI(s, i, words[k])])
  ELSE 0

AllDotMatch(s, from) == \A k \in from..Len(s) : DotMatches(s[k])

\* (\s*[:\-..]\s*(.*))?$ from position j: the subtitle tail is absent and the
\* text ends at j, or it is a separator followed by anything
TailAbsent(s, j) == j > Len(s)

TailPresent(s, j) ==
  LET k == SkipWhitespace(s, j)
  IN  k <= Len(s) /\ s[k] \in SeparatorChars
      /\ AllDotMatch(s, SkipWhitespace(s, k + 1))

\* match[3] || match[2]?.trim() for a tail that starts at j
TailTitle(s, j) ==
  IF TailAbsent(s, j) THEN Undefined
  ELSE LET k == SkipWhitespace(s, j)
           m3 == Suffix(s, SkipWhitespace(s, k + 1))
       IN  IF m3 # <<>> THEN m3 ELSE trim(Suffix(s, j))

NoChapter == [matched |-> FALSE, level |-> 0, number |-> Undefined, title |-> Undefined]

\* a pattern keyword\s+(number)(tail)?$ whose number token ends before j
KeywordPattern(s, i, j) ==
  IF i > 0 /\ j > 0 /\ (TailAbsent(s, j) \/ TailPresent(s, j))
  THEN [matched |-> TRUE, level |-> 1, number |-> SubSeq(s, i, j - 1), title |-> TailTitle(s, j)]
  ELSE NoChapter

\* the first alternative of the number group, in the order of ends, that
\* lets the rest of the pattern match
FirstEnd(s, ends) ==
  IF \E k \in 1..Len(ends) : ends[k] > 0 /\ (TailAbsent(s, ends[k]) \/ TailPresent(s, ends[k]))
  THEN ends[CHOOSE k \in 1..Len(ends) :
              /\ ends[k] > 0 /\ (TailAbsent(s, ends[k]) \/ TailPresent(s, ends[k]))
              /\ \A h \in 1..(k - 1) :
                   ~(ends[h] > 0 /\ (TailAbsent(s, ends[h]) \/ TailPresent(s, ends[h])))]
  ELSE 0

\* /^chapter\s+(\d+|one|...|ten)(\s*[:\-..]\s*(.*))?$/i
PatternChapterNumber(s) ==
  LET i == KeywordEnd(s, W_chapter)
  IN  IF i = 0 THEN NoChapter
      ELSE KeywordPattern(s, i, FirstEnd(s, <<DigitsEnd(s, i), WordEnd(s, i, NumberWordsTen)>>))

\* /^chapter\s+([ivxlcdm]+)(\s*[:\-..]\s*(.*))?$/i
PatternChapterRoman(s) ==
  LET i == KeywordEnd(s, W_chapter)
  IN  IF i = 0 THEN NoChapter
      ELSE KeywordPattern(s, i, FirstEnd(s, <<RomanEnd(s, i)>>))

\* /^(\d+)\.(\s*(.*))?$/
PatternNumbered(s) ==
  LET j == DigitsEnd(s, 1)
  IN  IF j > 0 /\ j <= Len(s) /\ s[j] = "." /\ AllDotMatch(s, SkipWhitespace(s, j + 1))
      THEN [matched |-> TRUE, level |-> 1, number |-> SubSeq(s, 1, j - 1),
            title |-> LET m3 == Suffix(s, SkipWhitespace(s, j + 1))
                      IN  IF m3 # <<>> THEN m3 ELSE trim(Suffix(s, j + 1))]
      ELSE NoChapter

\* /^part\s+(\d+|[ivxlcdm]+|one|two|three)(\s*[:\-..]\s*(.*))?$/i
PatternPart(s) ==
  LET i == KeywordEnd(s, W_part)
  IN  IF i = 0 THEN NoChapter
      ELSE KeywordPattern(s, i,
             FirstEnd(s, <<DigitsEnd(s, i), RomanEnd(s, i), WordEnd(s, i, NumberWordsThree)>>))

\* /^section\s+(\d+)(\s*[:\-..]\s*(.*))?$/i
PatternSection(s) ==
  LET i == KeywordEnd(s, W_section)
  IN  IF i = 0 THEN NoChapter
      ELSE KeywordPattern(s, i, FirstEnd(s, <<DigitsEnd(s, i)>>))

\* the first pattern of the list that matches, or no match (null)
detectChapter(text) ==
  LET results == <<PatternChapterNumber(text), PatternChapterRoman(text),
                   PatternNumbered(text), PatternPart(text), PatternSection(text)>>
  IN  IF \E k \in 1..5 : results[k].matched
      THEN results[CHOOSE k \in 1..5 :
                     results[k].matched /\ \A h \in 1..(k - 1) : ~results[h].matched]
      ELSE NoChapter

(***************************************************************************)
(* TextFormatter.isTitle, getTitleLevel and formatParagraph.               *)
(***************************************************************************)
TitleCapsMaxLen == 100
TitleShortMaxLen == 60
TitleCaseMaxLen == 80
SubtitleMaxLen == 30

\* text.match(/[.!?]$/)
EndsWithSentencePunctuation(text) == text # <<>> /\ text[Len(text)] \in {".", "!", "?"}

\* word.length > 0 && word[0] === word[0].toUpperCase()
IsTitleCaseWord(word) == Len(word) > 0 /\ <<word[1]>> = UpperOfChar(word[1])

\* words.filter(...).length
TitleCaseWordCount(words) == Cardinality({k \in 1..Len(words) : IsTitleCaseWord(words[k])})

\* isTitle with the test for sentence punctuation left out of the short-line rule
isTitleNoPunctuationTest(text, index, lines) ==
  \/ index = 0
  \/ text = toUpperCase(text) /\ Len(text) < TitleCapsMaxLen
  \/ /\ Len(text) < TitleShortMaxLen
     /\ \/ index + 2 > Len(lines)
        \/ Len(trim(lines[index + 2])) < TitleShortMaxLen
  \/ LET words == split(text, " ")
     IN  /\ 10 * TitleCaseWordCount(words) > 7 * Len(words)
         /\ Len(text) < TitleCaseMaxLen

isTitle(text, index, lines) ==
  \* index is the 0-based position of the line among the physical lines
  \/ index = 0
  \/ text = toUpperCase(text) /\ Len(text) < TitleCapsMaxLen
  \/ /\ Len(text) < TitleShortMaxLen
     /\ ~EndsWithSentencePunctuation(text)
     /\ \/ index + 2 > Len(lines)
        \/ Len(trim(lines[index + 2])) < TitleShortMaxLen
  \/ LET words == split(text, " ")
     IN  /\ 10 * TitleCaseWordCount(words) > 7 * Len(words)
         /\ Len(text) < TitleCaseMaxLen

getTitleLevel(text) ==
  IF text = toUpperCase(text) THEN 1
  ELSE IF Len(text) < SubtitleMaxLen THEN 2
  ELSE 3

\* text.replace(/\s+/g, ' ')
\* (the replacements recurse once per match, on the text after the match)
RECURSIVE CollapseWhitespace(_)
CollapseWhitespace(s) ==
  LET at == {i \in 1..Len(s) : IsWhitespace(s[i])}
  IN  IF at = {} THEN s
      ELSE SubSeq(s, 1, Min(at) - 1) \o <<" ">>
           \o CollapseWhitespace(Suffix(s, SkipWhitespace(s, Min(at))))

\* the position of the first q in s at or after i, 0 if there is none
IndexOfFrom(s, q, i) ==
  LET at == {k \in i..Len(s) : s[k] = q}
  IN  IF at = {} THEN 0 ELSE Min(at)

\* text.replace(/q([^q]*)q/g, open $1 close): the quotes are paired from
\* the left; a last quote without a partner stays
RECURSIVE ReplaceQuotePairs(_, _, _, _)
ReplaceQuotePairs(s, q, open, close) ==
  LET a == IndexOfFrom(s, q, 1)
      b == IF a = 0 THEN 0 ELSE IndexOfFrom(s, q, a + 1)
  IN  IF b = 0 THEN s
      ELSE SubSeq(s, 1, a - 1) \o <<open>> \o SubSeq(s, a + 1, b - 1) \o <<close>>
           \o ReplaceQuotePairs(Suffix(s, b + 1), q, open, close)

\* text.replace(/\s--\s/g, em dash)
RECURSIVE ReplaceEmDash(_)
ReplaceEmDash(s) ==
  LET at == {i \in 1..(Len(s) - 3) :
               IsWhitespace(s[i]) /\ s[i + 1] = "-" /\ s[i + 2] = "-" /\ IsWhitespace(s[i + 3])}
  IN  IF at = {} THEN s
      ELSE SubSeq(s, 1, Min(at) - 1) \o <<"EMDASH">> \o ReplaceEmDash(Suffix(s, Min(at) + 4))

\* text.replace(/\s-\s/g, ' en-dash ')
RECURSIVE ReplaceEnDash(_)
ReplaceEnDash(s) ==
  LET at == {i \in 1..(Len(s) - 2) :
               IsWhitespace(s[i]) /\ s[i + 1] = "-" /\ IsWhitespace(s[i + 2])}
  IN  IF at = {} THEN s
      ELSE SubSeq(s, 1, Min(at) - 1) \o <<" ", "ENDASH", " ">>
           \o ReplaceEnDash(Suffix(s, Min(at) + 3))

\* text.replace(/\.{3,}/g, ellipsis)
RECURSIVE ReplaceEllipsis(_)
ReplaceEllipsis(s) ==
  LET at == {i \in 1..(Len(s) - 2) : s[i] = "." /\ s[i + 1] = "." /\ s[i + 2] = "."}
  IN  IF at = {} THEN s
      ELSE SubSeq(s, 1, Min(at) - 1) \o <<"ELLIPSIS">>
           \o ReplaceEllipsis(Suffix(s, SkipClass(s, Min(at), {"."})))

formatParagraph(text) ==
  LET t1 == trim(CollapseWhitespace(text))
      t2 == ReplaceQuotePairs(t1, "\"", "LDQUO", "RDQUO")
      t3 == ReplaceQuotePairs(t2, "'", "LSQUO", "RSQUO")
      t4 == ReplaceEmDash(t3)
      t5 == ReplaceEnDash(t4)
  IN  ReplaceEllipsis(t5)

(***************************************************************************)
(* TextFormatter.formatText.  A FormattedSection is a record               *)
(*   type, content, level, metadata                                        *)
(* where level 0 stands for an absent level and metadata.kind tells which  *)
(* metadata object, if any, the block carries.                             *)
(***************************************************************************)
NoLevel == 0

NoMetadata ==
  [kind |-> "none", number |-> Undefined, title |-> Undefined,
   isFullPage |-> FALSE, filename |-> Undefined]

ChapterMetadata(number, title) ==
  [kind |-> "chapter", number |-> number, title |-> title,
   isFullPage |-> FALSE, filename |-> Undefined]

ImageMetadata(isFullPage, filename) ==
  [kind |-> "image", number |-> Undefined, title |-> Undefined,
   isFullPage |-> isFullPage, filename |-> filename]

Section(type, content, level, metadata) ==
  [type |-> type, content |-> content, level |-> level, metadata |-> metadata]

TagImage == <<"[", "I", "M", "A", "G", "E", ":">>
TagFullPage == <<"[", "F", "U", "L", "L", "P", "A", "G", "E", ":">>

\* the capture of /\[(?:IMAGE|FULLPAGE):(.+?)\]/ tried at position i: the
\* shortest non-empty run of characters up to a closing bracket
FilenameAt(s, i) ==
  LET start == IF MatchesAt(s, i, TagImage) THEN i + Len(TagImage)
               ELSE IF MatchesAt(s, i, TagFullPage) THEN i + Len(TagFullPage)
               ELSE 0
      close == IF start = 0 THEN 0 ELSE IndexOfFrom(s, "]", start + 1)
  IN  IF close > 0 /\ \A k \in start..(close - 1) : DotMatches(s[k])
      THEN SubSeq(s, start, close - 1)
      ELSE Undefined

\* trimmed.match(/\[(?:IMAGE|FULLPAGE):(.+?)\]/)?.[1]: the leftmost match
MatchImageFilename(s) ==
  IF \E i \in 1..Len(s) : FilenameAt(s, i) # Undefined
  THEN FilenameAt(s, CHOOSE i \in 1..Len(s) :
                       /\ FilenameAt(s, i) # Undefined
                       /\ \A h \in 1..(i - 1) : FilenameAt(s, h) = Undefined)
  ELSE Undefined

\* the loop body of formatText normalising the line before it classifies it
FormatLineNormalisingFirst(lines, index) ==
  LET trimmed == formatParagraph(trim(lines[index + 1]))
      chapterMatch == detectChapter(trimmed)
  IN  IF trimmed = <<>> THEN Section("spacer", <<>>, NoLevel, NoMetadata)
      ELSE IF chapterMatch.matched
      THEN Section("chapter", trimmed, chapterMatch.level,
                   ChapterMetadata(chapterMatch.number, chapterMatch.title))
      ELSE IF isTitle(trimmed, index, lines)
      THEN Section("title", trimmed, getTitleLevel(trimmed), NoMetadata)
      ELSE IF startsWith(trimmed, TagImage) \/ startsWith(trimmed, TagFullPage)
      THEN Section("image", trimmed, NoLevel,
                   ImageMetadata(startsWith(trimmed, TagFullPage), MatchImageFilename(trimmed)))
      ELSE Section("paragraph", trimmed, NoLevel, NoMetadata)

\* the body of the loop of formatText for the line at 0-based position index
FormatLine(lines, index) ==
  LET trimmed == trim(lines[index + 1])
      chapterMatch == detectChapter(trimmed)
  IN  IF trimmed = <<>> THEN Section("spacer", <<>>, NoLevel, NoMetadata)
      ELSE IF chapterMatch.matched
      THEN Section("chapter", trimmed, chapterMatch.level,
                   ChapterMetadata(chapterMatch.number, chapterMatch.title))
      ELSE IF isTitle(trimmed, index, lines)
      THEN Section("title", trimmed, getTitleLevel(trimmed), NoMetadata)
      ELSE IF startsWith(trimmed, TagImage) \/ startsWith(trimmed, TagFullPage)
      THEN Section("image", trimmed, NoLevel,
                   ImageMetadata(startsWith(trimmed, TagFullPage), MatchImageFilename(trimmed)))
      ELSE Section("paragraph", formatParagraph(trimmed), NoLevel, NoMetadata)

\* formatText pushing each section in front of the ones before it
formatTextNewestFirst(rawText) ==
  LET lines == split(rawText, "\n")
  IN  [i \in 1..Len(lines) |-> FormatLine(lines, Len(lines) - i)]

formatText(rawText) ==
  LET lines == split(rawText, "\n")
  IN  [i \in 1..Len(lines) |-> FormatLine(lines, i - 1)]

(***************************************************************************)
(* The legacy detector, utils/textParser: parseText and its helpers.  A    *)
(* ContentBlock is a record type, content, level, imageUrl, imageAlt,      *)
(* fullPage, with level 0 and Undefined for the absent fields.             *)
(***************************************************************************)
W_ch == <<"c", "h">>
W_book == <<"b", "o", "o", "k">>
W_prologue == <<"p", "r", "o", "l", "o", "g", "u", "e">>
W_epilogue == <<"e", "p", "i", "l", "o", "g", "u", "e">>
W_introduction == <<"i", "n", "t", "r", "o", "d", "u", "c", "t", "i", "o", "n">>
W_preface == <<"p", "r", "e", "f", "a", "c", "e">>
W_acknowledgment == <<"a", "c", "k", "n", "o", "w", "l", "e", "d", "g", "m", "e", "n", "t">>
W_acknowledgement == <<"a", "c", "k", "n", "o", "w", "l", "e", "d", "g", "e", "m", "e", "n", "t">>
W_about == <<"a", "b", "o", "u", "t">>
W_the == <<"t", "h", "e">>
W_author == <<"a", "u", "t", "h", "o", "r">>

LegacyCapsMaxLen == 50
LegacyTitleWordMaxLen == 100

\* /^keyword\s+\d+/ and /^keyword\s+[ivxlcdm]+/ tested on the lower-cased line
KeywordThenClass(s, keyword, class) ==
  LET i == KeywordEnd(s, keyword) IN i > 0 /\ i <= Len(s) /\ s[i] \in class

\* /^acknowledgments?$/ : the word, with or without a final s
WordOptionalS(s, word) == s = word \/ s = Append(word, "s")

\* /^about\s+the\s+author$/
AboutTheAuthor(s) ==
  LET i == KeywordEnd(s, W_about)
      j == IF i = 0 THEN 0 ELSE KeywordEnd(Suffix(s, i), W_the)
  IN  i > 0 /\ j > 0 /\ Suffix(Suffix(s, i), j) = W_author

LowerRomanChars == {"i", "v", "x", "l", "c", "d", "m"}

isChapterHeading(line) ==
  LET lineLower == trim(toLowerCase(line))
  IN  \/ KeywordThenClass(lineLower, W_chapter, Digits)
      \/ KeywordThenClass(lineLower, W_chapter, LowerRomanChars)
      \/ KeywordThenClass(lineLower, W_ch, Digits)
      \/ LET j == DigitsEnd(lineLower, 1)
         IN  j > 0 /\ j + 1 <= Len(lineLower) /\ lineLower[j] = "."
             /\ IsWhitespace(lineLower[j + 1])
      \/ lineLower \in {W_prologue, W_epilogue, W_introduction, W_preface}
      \/ WordOptionalS(lineLower, W_acknowledgment)
      \/ WordOptionalS(lineLower, W_acknowledgement)
      \/ AboutTheAuthor(lineLower)
      \/ KeywordThenClass(lineLower, W_part, LowerRomanChars)
      \/ KeywordThenClass(lineLower, W_part, Digits)
      \/ KeywordThenClass(lineLower, W_book, LowerRomanChars)
      \/ KeywordThenClass(lineLower, W_book, Digits)
      \/ line = toUpperCase(line) /\ Len(line) < LegacyCapsMaxLen
      \/ /\ Len(line) < LegacyTitleWordMaxLen
         /\ ~endsWith(line, <<".">>) /\ ~endsWith(line, <<",">>)
         /\ \E word \in {W_chapter, W_prologue, W_epilogue, W_part, W_book} :
              includes(lineLower, word)

getHeadingLevel(line) ==
  LET lineLower == trim(toLowerCase(line))
  IN  IF KeywordThenClass(lineLower, W_chapter, Digits) THEN 1
      ELSE IF KeywordEnd(lineLower, W_part) > 0 \/ KeywordEnd(lineLower, W_book) > 0 THEN 1
      ELSE IF lineLower \in {W_prologue, W_epilogue} THEN 1
      ELSE IF lineLower \in {W_introduction, W_preface} THEN 2
      ELSE IF \/ WordOptionalS(lineLower, W_acknowledgment)
              \/ WordOptionalS(lineLower, W_acknowledgement)
              \/ AboutTheAuthor(lineLower) THEN 3
      ELSE 1

LegacyImageTags ==
  {<<"i", "m", "a", "g", "e">>, <<"f", "u", "l", "l", "p", "a", "g", "e">>, <<"i", "m", "g">>, <<"c", "h", "a", "p", "t", "e", "r", "-", "i", "m", "a", "g", "e">>}

\* /^\[TAG:[^\]]+\]$/i for one of the four tags
isImagePlaceholder(line) ==
  LET t == trim(line)
  IN  \E tag \in LegacyImageTags :
        /\ Len(t) >= Len(tag) + 4
        /\ t[1] = "[" /\ MatchesAtCI(t, 2, tag) /\ t[Len(tag) + 2] = ":"
        /\ t[Len(t)] = "]"
        /\ \A k \in (Len(tag) + 3)..(Len(t) - 1) : t[k] # "]"

\* s.replace(/[-_]/g, ' ')
ReplaceDashUnderscore(s) == [i \in 1..Len(s) |-> IF s[i] \in {"-", "_"} THEN " " ELSE s[i]]

\* alt.charAt(0).toUpperCase() + alt.slice(1)
Capitalize(s) == IF s = <<>> THEN <<>> ELSE UpperOfChar(s[1]) \o Tail(s)

DefaultImageData == [url |-> <<>>, alt |-> <<"I", "m", "a", "g", "e">>, fullPage |-> FALSE]

parseImagePlaceholder(line) ==
  LET t == trim(line)
      colon == IndexOfFrom(t, ":", 1)
      \* /^\[([^:]+):([^\]]+)\]$/i
      matches == /\ Len(t) >= 5 /\ t[1] = "[" /\ t[Len(t)] = "]"
                 /\ colon >= 3 /\ colon <= Len(t) - 2
                 /\ \A k \in (colon + 1)..(Len(t) - 1) : t[k] # "]"
      type == SubSeq(t, 2, colon - 1)
      content == SubSeq(t, colon + 1, Len(t) - 1)
      pathParts == split(content, "/")
      filename == IF pathParts[Len(pathParts)] # <<>> THEN pathParts[Len(pathParts)]
                  ELSE content
      alt == IF includes(content, <<".">>)
             THEN ReplaceDashUnderscore(split(filename, ".")[1])
             ELSE content
  IN  IF ~matches THEN DefaultImageData
      ELSE [url |-> content, alt |-> Capitalize(alt),
            fullPage |-> toUpperCase(type) \in {<<"F", "U", "L", "L", "P", "A", "G", "E">>, <<"C", "H", "A", "P", "T", "E", "R", "-", "I", "M", "A", "G", "E">>}]

ContentBlock(type, content, level, imageUrl, imageAlt, fullPage) ==
  [type |-> type, content |-> content, level |-> level,
   imageUrl |-> imageUrl, imageAlt |-> imageAlt, fullPage |-> fullPage]

\* the block parseText pushes for a non-blank trimmed line
ParseLine(trimmedLine) ==
  IF isImagePlaceholder(trimmedLine)
  THEN LET imageData == parseImagePlaceholder(trimmedLine)
       IN  ContentBlock("image",
                        IF imageData.alt # <<>> THEN imageData.alt ELSE <<"F", "u", "l", "l", " ", "p", "a", "g", "e", " ", "i", "m", "a", "g", "e">>,
                        NoLevel, imageData.url, imageData.alt, imageData.fullPage)
  ELSE IF isChapterHeading(trimmedLine)
  THEN ContentBlock("chapter", trimmedLine, getHeadingLevel(trimmedLine),
                    Undefined, Undefined, FALSE)
  ELSE ContentBlock("paragraph", trimmedLine, NoLevel, Undefined, Undefined, FALSE)

\* Array.prototype.filter on a sequence of strings: the non-blank lines, in order
NonBlankLines(lines) ==
  LET kept == {i \in 1..Len(lines) : trim(lines[i]) # <<>>}
      Nth(k) == CHOOSE i \in kept : Cardinality({h \in kept : h < i}) = k - 1
  IN  [k \in 1..Cardinality(kept) |-> trim(lines[Nth(k)])]

parseText(text) ==
  IF trim(text) = <<>> THEN <<>>
  ELSE LET kept == NonBlankLines(split(trim(text), "\n"))
       IN  [k \in 1..Len(kept) |-> ParseLine(kept[k])]

(***************************************************************************)
(* TextFormatter: getTemplateCSS and the three renderers.  uploadedImages  *)
(* is a function from image keys to image payloads.  The body of a style   *)
(* bundle is opaque: a bundle is named by the key of the templates table.  *)
(***************************************************************************)
T_classic == <<"c", "l", "a", "s", "s", "i", "c">>
T_modern == <<"m", "o", "d", "e", "r", "n">>
T_elegant == <<"e", "l", "e", "g", "a", "n", "t">>
T_scifi == <<"s", "c", "i", "f", "i">>

\* the keys of the templates table of getTemplateCSS
KnownTemplates == {T_classic, T_modern, T_elegant, T_scifi}

\* templates[template] || templates.modern
getTemplateCSS(template) ==
  IF template \in KnownTemplates THEN [bundle |-> template] ELSE [bundle |-> T_modern]

\* property names every object literal inherits from Object.prototype: the
\* image map is built as {} and read as uploadedImages[filename]
K_constructor == <<"c", "o", "n", "s", "t", "r", "u", "c", "t", "o", "r">>

K_toString == <<"t", "o", "S", "t", "r", "i", "n", "g">>

ObjectPrototypeKeys == {K_constructor, K_toString}

\* what a template literal prints for the inherited function
InheritedValue(filename) ==
  <<"f", "u", "n", "c", "t", "i", "o", "n", " ">> \o (IF filename = K_constructor THEN <<"O", "b", "j", "e", "c", "t">> ELSE filename)
  \o <<"(", ")", " ", "{", " ", "[", "n", "a", "t", "i", "v", "e", " ", "c", "o", "d", "e", "]", " ", "}">>

\* uploadedImages[filename]: the own entry, else the inherited property,
\* else undefined
ImageLookup(uploadedImages, filename) ==
  IF filename \in DOMAIN uploadedImages THEN uploadedImages[filename]
  ELSE IF filename \in ObjectPrototypeKeys THEN InheritedValue(filename)
  ELSE Undefined

\* filename && uploadedImages[filename]
ImageResolves(uploadedImages, filename) ==
  /\ filename # Undefined /\ filename # <<>>
  /\ ImageLookup(uploadedImages, filename) # Undefined
  /\ ImageLookup(uploadedImages, filename) # <<>>

\* the tag of a title that knows two levels only
TitleTagTwoLevels(level) ==
  IF level = NoLevel \/ level = 1 THEN <<"h", "1">> ELSE <<"h", "2">>

\* section.level || 1, then h1, h2 or h3
TitleTag(level) ==
  IF level = NoLevel \/ level = 1 THEN <<"h", "1">> ELSE IF level = 2 THEN <<"h", "2">> ELSE <<"h", "3">>

\* the markup renderToHTML appends for one section
RenderSectionHTML(section, uploadedImages) ==
  CASE section.type = "title" ->
         <<"<">> \o TitleTag(section.level) \o <<">">> \o section.content
         \o <<"<", "/">> \o TitleTag(section.level) \o <<">">>
    [] section.type = "chapter" -> <<"<", "h", "2", ">">> \o section.content \o <<"<", "/", "h", "2", ">">>
    [] section.type = "paragraph" -> <<"<", "p", ">">> \o section.content \o <<"<", "/", "p", ">">>
    [] section.type = "image" ->
         IF ImageResolves(uploadedImages, section.metadata.filename)
         THEN <<"<", "i", "m", "g", " ", "s", "r", "c", "=", "\"">> \o ImageLookup(uploadedImages, section.metadata.filename)
              \o <<"\"", " ", "a", "l", "t", "=", "\"">> \o section.metadata.filename \o <<"\"", " ", "c", "l", "a", "s", "s", "=", "\"">>
              \o (IF section.metadata.isFullPage THEN <<"i", "m", "a", "g", "e", "-", "f", "u", "l", "l", "p", "a", "g", "e">> ELSE <<"i", "m", "a", "g", "e", "-", "i", "n", "l", "i", "n", "e">>)
              \o <<"\"", " ", "/", ">">>
         ELSE <<>>
    [] section.type = "spacer" -> <<"<", "d", "i", "v", " ", "c", "l", "a", "s", "s", "=", "\"", "s", "p", "a", "c", "e", "r", "\"", ">", "<", "/", "d", "i", "v", ">">>
    [] OTHER -> <<>>

\* the concatenation of the strings of a sequence (the halving keeps it shallow)
RECURSIVE Concat(_)
Concat(parts) ==
  IF parts = <<>> THEN <<>>
  ELSE IF Len(parts) = 1 THEN parts[1]
  ELSE Concat(SubSeq(parts, 1, Len(parts) \div 2))
       \o Concat(SubSeq(parts, Len(parts) \div 2 + 1, Len(parts)))

renderToHTML(template, sections, uploadedImages) ==
  <<"<", "d", "i", "v", " ", "c", "l", "a", "s", "s", "=", "\"", "t", "e", "m", "p", "l", "a", "t", "e", "-">> \o template \o <<"\"", ">">>
  \o Concat([i \in 1..Len(sections) |-> RenderSectionHTML(sections[i], uploadedImages)])
  \o <<"<", "/", "d", "i", "v", ">">>

\* filename || 'Image' and the text template literals print for undefined
OrElse(value, default) == IF value = Undefined \/ value = <<>> THEN default ELSE value

Printed(value) == IF value = Undefined THEN <<"u", "n", "d", "e", "f", "i", "n", "e", "d">> ELSE value

\* the string of a section with one # for a title of any level
MarkdownSectionOneHash(section) ==
  CASE section.type = "title" -> <<"#", " ">> \o section.content
    [] section.type = "chapter" -> <<"#", "#", " ">> \o section.content
    [] section.type = "paragraph" -> section.content
    [] section.type = "image" ->
         <<"!", "[">> \o OrElse(section.metadata.filename, <<"I", "m", "a", "g", "e">>) \o <<"]", "(">>
         \o Printed(section.metadata.filename) \o <<")">>
         \o (IF section.metadata.isFullPage THEN <<" ", "{", ".", "f", "u", "l", "l", "-", "p", "a", "g", "e", "}">> ELSE <<>>)
    [] section.type = "spacer" -> <<>>
    [] OTHER -> section.content

\* the string the callback of exportAsMarkdown returns for one section
MarkdownSection(section) ==
  CASE section.type = "title" ->
         repeat("#", IF section.level = NoLevel THEN 1 ELSE section.level)
         \o <<" ">> \o section.content
    [] section.type = "chapter" -> <<"#", "#", " ">> \o section.content
    [] section.type = "paragraph" -> section.content
    [] section.type = "image" ->
         <<"!", "[">> \o OrElse(section.metadata.filename, <<"I", "m", "a", "g", "e">>) \o <<"]", "(">>
         \o Printed(section.metadata.filename) \o <<")">>
         \o (IF section.metadata.isFullPage THEN <<" ", "{", ".", "f", "u", "l", "l", "-", "p", "a", "g", "e", "}">> ELSE <<>>)
    [] section.type = "spacer" -> <<>>
    [] OTHER -> section.content

\* exportAsMarkdown with the spacer sections left out before the join
exportAsMarkdownWithoutSpacers(sections) ==
  LET kept == SelectSeq(sections, LAMBDA section : section.type # "spacer")
  IN  join([i \in 1..Len(kept) |-> MarkdownSection(kept[i])], <<"\n", "\n">>)

exportAsMarkdown(sections) ==
  join([i \in 1..Len(sections) |-> MarkdownSection(sections[i])], <<"\n", "\n">>)

TextSection(section) ==
  CASE section.type = "title" ->
         toUpperCase(section.content) \o <<"\n">> \o repeat("=", Len(section.content))
    [] section.type = "chapter" ->
         <<"\n", "\n">> \o section.content \o <<"\n">> \o repeat("-", Len(section.content))
    [] section.type = "paragraph" -> section.content
    [] section.type = "image" ->
         <<"[", "I", "m", "a", "g", "e", ":", " ">> \o OrElse(section.metadata.filename, <<"I", "m", "a", "g", "e", " ", "p", "l", "a", "c", "e", "h", "o", "l", "d", "e", "r">>) \o <<"]">>
    [] section.type = "spacer" -> <<>>
    [] OTHER -> section.content

\* exportAsText leaving out the blank lines before a chapter that is the
\* first section
exportAsTextByPosition(sections) ==
  join([i \in 1..Len(sections) |->
          IF i = 1 /\ sections[i].type = "chapter"
          THEN Suffix(TextSection(sections[i]), 3)
          ELSE TextSection(sections[i])], <<"\n", "\n">>)

exportAsText(sections) ==
  join([i \in 1..Len(sections) |-> TextSection(sections[i])], <<"\n", "\n">>)

(***************************************************************************)
(* ExportUtility.  The options are those of the quick export functions:    *)
(* no filename and no metadata, so every metadata branch takes its         *)
(* default.  The constant text around the rendered sections (the document  *)
(* head, the style bundle, the styles object) is opaque: a file content is *)
(* a record naming its wrapper, the style bundle it embeds and the         *)
(* rendered body, which is modelled character by character.                *)
(***************************************************************************)
\* text.replace(/c/g, replacement) for a character c
RECURSIVE ReplaceChar(_, _, _)
ReplaceChar(s, c, replacement) ==
  IF s = <<>> THEN <<>>
  ELSE IF Len(s) = 1 THEN (IF s[1] = c THEN replacement ELSE s)
  ELSE ReplaceChar(SubSeq(s, 1, Len(s) \div 2), c, replacement)
       \o ReplaceChar(Suffix(s, Len(s) \div 2 + 1), c, replacement)

\* escapeJSX replacing the ampersands after the other five characters
escapeJSXAmpersandLast(text) ==
  LET t1 == ReplaceChar(text, "<", <<"&", "l", "t", ";">>)
      t2 == ReplaceChar(t1, ">", <<"&", "g", "t", ";">>)
      t3 == ReplaceChar(t2, "\"", <<"&", "q", "u", "o", "t", ";">>)
      t4 == ReplaceChar(t3, "{", <<"&", "#", "1", "2", "3", ";">>)
      t5 == ReplaceChar(t4, "}", <<"&", "#", "1", "2", "5", ";">>)
  IN  ReplaceChar(t5, "&", <<"&", "a", "m", "p", ";">>)

escapeJSX(text) ==
  LET t1 == ReplaceChar(text, "&", <<"&", "a", "m", "p", ";">>)
      t2 == ReplaceChar(t1, "<", <<"&", "l", "t", ";">>)
      t3 == ReplaceChar(t2, ">", <<"&", "g", "t", ";">>)
      t4 == ReplaceChar(t3, "\"", <<"&", "q", "u", "o", "t", ";">>)
      t5 == ReplaceChar(t4, "{", <<"&", "#", "1", "2", "3", ";">>)
  IN  ReplaceChar(t5, "}", <<"&", "#", "1", "2", "5", ";">>)

escapeHTML(text) ==
  LET t1 == ReplaceChar(text, "&", <<"&", "a", "m", "p", ";">>)
      t2 == ReplaceChar(t1, "<", <<"&", "l", "t", ";">>)
      t3 == ReplaceChar(t2, ">", <<"&", "g", "t", ";">>)
      t4 == ReplaceChar(t3, "\"", <<"&", "q", "u", "o", "t", ";">>)
  IN  ReplaceChar(t4, "'", <<"&", "#", "3", "9", ";">>)

NoBundle == [bundle |-> <<>>]

FileContent(wrapper, css, body) == [wrapper |-> wrapper, css |-> css, body |-> body]

\* generateFullHTML: the document around the style bundle and the body
generateFullHTML(template, sections, uploadedImages) ==
  FileContent("fullHTML", getTemplateCSS(template),
              renderToHTML(template, sections, uploadedImages))

\* the decimal digit template literals print for section.level || 1
LevelDigit(level) ==
  <<(<<"1", "2", "3", "4", "5", "6", "7", "8", "9">>)[IF level = NoLevel THEN 1 ELSE level]>>

\* the lines exportAsJSX appends for one section
JSXSection(section, uploadedImages) ==
  CASE section.type = "title" ->
         <<" ", " ", " ", " ", " ", " ", "<">> \o TitleTag(section.level) \o <<" ", "c", "l", "a", "s", "s", "N", "a", "m", "e", "=", "\"", "t", "i", "t", "l", "e", " ", "l", "e", "v", "e", "l", "-">>
         \o LevelDigit(section.level) \o <<"\"", " ", "s", "t", "y", "l", "e", "=", "{", "t", "i", "t", "l", "e", "S", "t", "y", "l", "e", "s", ".", "l", "e", "v", "e", "l">>
         \o LevelDigit(section.level) \o <<"}", ">", "\n">>
         \o <<" ", " ", " ", " ", " ", " ", " ", " ">> \o escapeJSX(section.content) \o <<"\n">>
         \o <<" ", " ", " ", " ", " ", " ", "<", "/">> \o TitleTag(section.level) \o <<">", "\n">>
    [] section.type = "chapter" ->
         <<" ", " ", " ", " ", " ", " ", "<", "h", "2", " ", "c", "l", "a", "s", "s", "N", "a", "m", "e", "=", "\"", "c", "h", "a", "p", "t", "e", "r", "\"", " ", "s", "t", "y", "l", "e", "=", "{", "c", "h", "a", "p", "t", "e", "r", "S", "t", "y", "l", "e", "s", "}", ">", "\n">>
         \o <<" ", " ", " ", " ", " ", " ", " ", " ">> \o escapeJSX(section.content) \o <<"\n">>
         \o <<" ", " ", " ", " ", " ", " ", "<", "/", "h", "2", ">", "\n">>
    [] section.type = "paragraph" ->
         <<" ", " ", " ", " ", " ", " ", "<", "p", " ", "c", "l", "a", "s", "s", "N", "a", "m", "e", "=", "\"", "p", "a", "r", "a", "g", "r", "a", "p", "h", "\"", " ", "s", "t", "y", "l", "e", "=", "{", "p", "a", "r", "a", "g", "r", "a", "p", "h", "S", "t", "y", "l", "e", "s", "}", ">", "\n">>
         \o <<" ", " ", " ", " ", " ", " ", " ", " ">> \o escapeJSX(section.content) \o <<"\n">>
         \o <<" ", " ", " ", " ", " ", " ", "<", "/", "p", ">", "\n">>
    [] section.type = "image" ->
         IF ImageResolves(uploadedImages, section.metadata.filename)
         THEN <<" ", " ", " ", " ", " ", " ", "<", "i", "m", "g", " ", "\n">>
              \o <<" ", " ", " ", " ", " ", " ", " ", " ", "s", "r", "c", "=", "\"">> \o ImageLookup(uploadedImages, section.metadata.filename)
              \o <<"\"", " ", "\n">>
              \o <<" ", " ", " ", " ", " ", " ", " ", " ", "a", "l", "t", "=", "\"">> \o section.metadata.filename \o <<"\"", " ", "\n">>
              \o <<" ", " ", " ", " ", " ", " ", " ", " ", "c", "l", "a", "s", "s", "N", "a", "m", "e", "=", "\"">>
              \o (IF section.metadata.isFullPage THEN <<"i", "m", "a", "g", "e", "-", "f", "u", "l", "l", "p", "a", "g", "e">> ELSE <<"i", "m", "a", "g", "e", "-", "i", "n", "l", "i", "n", "e">>)
              \o <<"\"", " ", "\n">>
              \o <<" ", " ", " ", " ", " ", " ", " ", " ", "s", "t", "y", "l", "e", "=", "{">>
              \o (IF section.metadata.isFullPage THEN <<"f", "u", "l", "l", "P", "a", "g", "e", "I", "m", "a", "g", "e", "S", "t", "y", "l", "e", "s">>
                  ELSE <<"i", "n", "l", "i", "n", "e", "I", "m", "a", "g", "e", "S", "t", "y", "l", "e", "s">>)
              \o <<"}", " ", "\n">>
              \o <<" ", " ", " ", " ", " ", " ", "/", ">", "\n">>
         ELSE <<>>
    [] section.type = "spacer" -> <<" ", " ", " ", " ", " ", " ", "<", "d", "i", "v", " ", "c", "l", "a", "s", "s", "N", "a", "m", "e", "=", "\"", "s", "p", "a", "c", "e", "r", "\"", " ", "s", "t", "y", "l", "e", "=", "{", "s", "p", "a", "c", "e", "r", "S", "t", "y", "l", "e", "s", "}", " ", "/", ">", "\n">>
    [] OTHER -> <<>>

JSXContent(sections, uploadedImages) ==
  FileContent("jsxComponent", NoBundle,
              Concat([i \in 1..Len(sections) |-> JSXSection(sections[i], uploadedImages)]))

\* the markup generateDOCXCompatibleHTML appends for one section
DOCXSection(section) ==
  CASE section.type = "title" ->
         <<"<", "h">> \o LevelDigit(section.level) \o <<">">> \o escapeHTML(section.content)
         \o <<"<", "/", "h">> \o LevelDigit(section.level) \o <<">">>
    [] section.type = "chapter" -> <<"<", "h", "2", ">">> \o escapeHTML(section.content) \o <<"<", "/", "h", "2", ">">>
    [] section.type = "paragraph" -> <<"<", "p", ">">> \o escapeHTML(section.content) \o <<"<", "/", "p", ">">>
    [] section.type = "spacer" -> <<"<", "p", ">", "&", "n", "b", "s", "p", ";", "<", "/", "p", ">">>
    [] OTHER -> <<>>

generateDOCXCompatibleHTML(sections) ==
  FileContent("docxHTML", NoBundle,
              Concat([i \in 1..Len(sections) |-> DOCXSection(sections[i])]))

ImplementedFormats == {"html", "jsx", "markdown", "txt", "docx"}

\* throw new Error(`Unsupported export format: ${format}`)
UnsupportedFormat == "Unsupported export format"

File(content, filename, mimeType) ==
  [content |-> content, filename |-> filename, mimeType |-> mimeType]

NoFile == File(FileContent("none", NoBundle, <<>>), <<>>, "none")

\* the switch of export with a default branch that falls back to HTML
ExportResultDefaultsToHTML(format, template, sections, uploadedImages) ==
  IF format \in {"jsx", "markdown", "txt", "docx"}
  THEN [error |-> "none",
        file |-> File(FileContent("plain", NoBundle, exportAsText(sections)),
                      <<"d", "o", "c", "u", "m", "e", "n", "t", ".", "t", "x", "t">>, "text/plain")]
  ELSE [error |-> "none",
        file |-> File(generateFullHTML(template, sections, uploadedImages),
                      <<"d", "o", "c", "u", "m", "e", "n", "t", ".", "h", "t", "m", "l">>, "text/html")]

\* the switch of ExportUtility.export: the file handed to downloadFile, or
\* the error thrown, for the options of the exporter
ExportResult(format, template, sections, uploadedImages) ==
  CASE format = "html" ->
         [error |-> "none",
          file |-> File(generateFullHTML(template, sections, uploadedImages),
                        <<"d", "o", "c", "u", "m", "e", "n", "t", ".", "h", "t", "m", "l">>, "text/html")]
    [] format = "jsx" ->
         [error |-> "none",
          file |-> File(JSXContent(sections, uploadedImages),
                        <<"D", "o", "c", "u", "m", "e", "n", "t", ".", "j", "s", "x">>, "text/javascript")]
    [] format = "markdown" ->
         [error |-> "none",
          file |-> File(FileContent("plain", NoBundle, exportAsMarkdown(sections)),
                        <<"d", "o", "c", "u", "m", "e", "n", "t", ".", "m", "d">>, "text/markdown")]
    [] format = "txt" ->
         [error |-> "none",
          file |-> File(FileContent("plain", NoBundle, exportAsText(sections)),
                        <<"d", "o", "c", "u", "m", "e", "n", "t", ".", "t", "x", "t">>, "text/plain")]
    [] format = "docx" ->
         [error |-> "none",
          file |-> File(generateDOCXCompatibleHTML(sections), <<"d", "o", "c", "u", "m", "e", "n", "t", ".", "h", "t", "m", "l">>,
                        "application/vnd.openxmlformats-officedocument.wordprocessingml.document")]
    [] OTHER -> [error |-> UnsupportedFormat, file |-> NoFile]

(***************************************************************************)
(* Inputs.  The manuscript texts are every string of at most MaxLen        *)
(* characters over a small alphabet, and the texts of the scenarios: the   *)
(* two manuscripts of the documentation and image placeholder lines in     *)
(* the positions a manuscript can hold them.                               *)
(***************************************************************************)
MaxLen == 3
MaxInsertLen == 1
MaxDownloads == 1

TextAlphabet == {"a", " ", "\n", "."}

ShortTexts == UNION {[1..n -> TextAlphabet] : n \in 0..MaxLen}

ScenarioMyBook == <<"M", "y", " ", "B", "o", "o", "k", "\n", "\n", "C", "h", "a", "p", "t", "e", "r", " ", "1", "\n", "T", "h", "e", " ", "S", "t", "a", "r", "t", "\n", "\n", "S", "o", "m", "e", " ", "p", "r", "o", "s", "e", " ", "h", "e", "r", "e", ".">>

ScenarioTitle == <<"T", "i", "t", "l", "e", "\n", "\n", "C", "h", "a", "p", "t", "e", "r", " ", "1", "\n", "H", "e", "l", "l", "o", "\n", "\n", "C", "h", "a", "p", "t", "e", "r", " ", "2", "\n", "W", "o", "r", "l", "d">>

ScenarioBlank == <<" ", " ", " ", "\n", " ", " ", "\n">>

ScenarioLateProse == <<"\n", "\n", "i", "t", " ", "w", "a", "s", " ", "n", "i", "g", "h", "t", ".">>

\* a line of 67 characters that is a Paragraph wherever it stands but first
LongLine == <<"i", "t", " ", "w", "a", "s", " ", "a", " ", "d", "a", "r", "k", " ", "a", "n", "d", " ", "s", "t", "o", "r", "m", "y", " ", "n", "i", "g", "h", "t", ",", " ", "a", "n", "d", " ", "t", "h", "e", " ", "o", "l", "d", " ", "m", "a", "n", "s", "i", "o", "n", " ", "s", "t", "o", "o", "d", " ", "s", "i", "l", "e", "n", "t", "l", "y", ".">>

ImageKeys == {<<"k">>, <<"K", "1">>, <<"m", "y", " ", "p", "i", "c", " ", "o", "n", "e", " ", "t", "w", "o">>}

ImagePayloads == {<<"d", "a", "t", "a", ":", "1">>}

\* the placeholder handleImageInsert builds for a key
Placeholder(isFullPage, filename) ==
  (IF isFullPage THEN TagFullPage ELSE TagImage) \o filename \o <<"]">>

ImageTags == {TagImage, TagFullPage}

\* the tags in the letter cases a writer may type them
TypedTags == ImageTags \cup {<<"[", "i", "m", "a", "g", "e", ":">>, <<"[", "I", "m", "a", "g", "e", ":">>, <<"[", "f", "u", "l", "l", "p", "a", "g", "e", ":">>}

\* one placeholder line for tag and key: alone, before a blank line, before
\* a short line, and between a title line and a long line
PlaceholderTexts(tag, key) ==
  LET line == tag \o key \o <<"]">>
  IN  {line, line \o <<"\n">>, line \o <<"\n", "h", "i">>, <<"T", "\n">> \o line \o <<"\n">> \o LongLine}

ImageTexts == UNION {PlaceholderTexts(tag, key) : tag \in TypedTags, key \in ImageKeys}

\* one line in the positions of a placeholder line: alone, before a blank
\* line, before a short line, and between a title line and a long line
LineTexts(line) ==
  {line, line \o <<"\n">>, line \o <<"\n", "h", "i">>, <<"T", "\n">> \o line \o <<"\n">> \o LongLine}

\* placeholder lines a writer left malformed: the closing bracket missing,
\* or a tag that names no image
MalformedLines ==
  {<<"[", "I", "M", "A", "G", "E", ":", "m", "y", " ", "p", "i", "c", " ", "o", "n", "e", " ", "t", "w", "o">>,
   <<"[", "F", "U", "L", "L", "P", "A", "G", "E", ":", "k">>,
   <<"[", "V", "I", "D", "E", "O", ":", "m", "y", " ", "p", "i", "c", " ", "o", "n", "e", " ", "t", "w", "o", "]">>,
   <<"[", "V", "I", "D", "E", "O", ":", "k", "]">>}

\* a manuscript whose placeholder names a key that is a property name of
\* every object
ScenarioInheritedKey ==
  <<"T", "\n", "[", "I", "M", "A", "G", "E", ":", "c", "o", "n", "s", "t", "r", "u", "c", "t", "o", "r", "]", " ", "s", "e", "e", " ", "t", "h", "e", " ", "f", "i", "g", "u", "r", "e", " ", "a", "b", "o", "v", "e", ".", "\n">> \o LongLine

\* a manuscript whose first line is an all-caps part heading
ScenarioPartOne == <<"P", "A", "R", "T", " ", "I", "\n", "\n", "C", "h", "a", "p", "t", "e", "r", " ", "1">>

\* the standalone section names, as a writer types them
SectionNameLines ==
  {<<"P", "r", "o", "l", "o", "g", "u", "e">>, <<"E", "P", "I", "L", "O", "G", "U", "E">>, <<"i", "n", "t", "r", "o", "d", "u", "c", "t", "i", "o", "n">>,
   <<"P", "r", "e", "f", "a", "c", "e">>, <<"A", "c", "k", "n", "o", "w", "l", "e", "d", "g", "m", "e", "n", "t", "s">>,
   <<"A", "b", "o", "u", "t", " ", "t", "h", "e", " ", "A", "u", "t", "h", "o", "r">>}

\* a section name alone, and between a title line and a long line
SectionNameTexts ==
  UNION {{line, <<"T", "\n">> \o line \o <<"\n">> \o LongLine} : line \in SectionNameLines}

\* heading lines of the documented forms, as a writer types them
HeadingLines ==
  {<<"c", "h", "a", "p", "t", "e", "r", " ", "o", "n", "e">>, <<"C", "H", "A", "P", "T", "E", "R", " ", "I", "V", ":", " ", "T", "h", "e", " ", "S", "t", "o", "r", "m">>,
   <<"P", "a", "r", "t", " ", "2">>, <<"B", "o", "o", "k", " ", "1">>, <<"S", "e", "c", "t", "i", "o", "n", " ", "3">>,
   <<"2", ".", " ", "T", "i", "t", "l", "e">>}

\* a heading line alone, and between a title line and a long line
HeadingTexts ==
  UNION {{line, <<"T", "\n">> \o line \o <<"\n">> \o LongLine} : line \in HeadingLines}

\* a short title-cased sentence after a title line, before a long line and
\* before the end of the manuscript
ScenarioSentence == <<"T", "\n", "H", "e", " ", "R", "a", "n", " ", "A", "w", "a", "y", ".", "\n">> \o LongLine

ScenarioLastSentence == <<"T", "\n", "\n", "H", "e", " ", "R", "a", "n", " ", "A", "w", "a", "y", ".">>

\* prose lines with the runs and dashes formatParagraph rewrites
ScenarioTypography ==
  <<"T", "\n", "w", "a", "i", "t", " ", " ", "f", "o", "r", " ", "i", "t", ".", ".", ".", ".", " ", "h", "e", " ", "-", "-", " ", "s", "h", "e", " ", "-", " ", "i", "t", ".", "\n">> \o LongLine

ScenarioTwoHyphens ==
  <<"T", "\n", "h", "e", " ", "s", "a", "i", "d", " ", "a", " ", "-", " ", "-", " ", "b", " ", "a", "n", "d", " ", "w", "e", "n", "t", " ", "o", "n", ".", "\n">> \o LongLine

\* a prose line with paired quotes and an apostrophe
ScenarioApostrophe ==
  <<"T", "\n", "s", "h", "e", " ", "s", "a", "i", "d", " ", "\"", "g", "o", "\"", " ", "a", "n", "d", " ", "'", "n", "o", "w", "'", " ", "b", "u", "t", " ", "d", "o", "n", "'", "t", " ", "w", "a", "i", "t", " ", "h", "e", "r", "e", ".", "\n">> \o LongLine

MalformedTexts == UNION {LineTexts(line) : line \in MalformedLines}

Texts ==
  ShortTexts \cup ImageTexts \cup MalformedTexts \cup SectionNameTexts \cup HeadingTexts
  \cup {ScenarioMyBook, ScenarioTitle, ScenarioBlank, ScenarioLateProse, ScenarioInheritedKey,
          ScenarioPartOne, ScenarioSentence, ScenarioLastSentence, ScenarioTypography,
          ScenarioTwoHyphens, ScenarioApostrophe}

TemplateIds == KnownTemplates \cup {<<"r", "e", "t", "r", "o">>}

ExportFormats == ImplementedFormats \cup {"epub"}

\* the templates an export is tried with: every one for the format whose
\* output reads the template (generateFullHTML), the default selection of
\* the application for the formats that ignore it
TemplatesFor(format) == IF format = "html" THEN TemplateIds ELSE {T_classic}

\* block sequences a caller builds by hand
ScriptText == <<"<", "s", "c", "r", "i", "p", "t", ">", "&", "\"", "'">>

\* the block sequence of the documented scenario "My Book"
MyBookSections ==
  <<Section("title", <<"M", "y", " ", "B", "o", "o", "k">>, 1, NoMetadata),
    Section("spacer", <<>>, NoLevel, NoMetadata),
    Section("chapter", <<"C", "h", "a", "p", "t", "e", "r", " ", "1">>, 1, ChapterMetadata(<<"1">>, Undefined)),
    Section("paragraph", <<"T", "h", "e", " ", "S", "t", "a", "r", "t">>, NoLevel, NoMetadata),
    Section("spacer", <<>>, NoLevel, NoMetadata),
    Section("paragraph", <<"S", "o", "m", "e", " ", "p", "r", "o", "s", "e", " ", "h", "e", "r", "e", ".">>, NoLevel, NoMetadata)>>

\* image blocks for a key of the image map, a key it lacks and a key that
\* is a property name of every object
GallerySections ==
  <<Section("image", <<"[", "I", "M", "A", "G", "E", ":", "k", "]">>, NoLevel, ImageMetadata(FALSE, <<"k">>)),
    Section("image", <<"[", "F", "U", "L", "L", "P", "A", "G", "E", ":", "K", "1", "]">>, NoLevel, ImageMetadata(TRUE, <<"K", "1">>)),
    Section("image", <<"[", "F", "U", "L", "L", "P", "A", "G", "E", ":", "t", "o", "S", "t", "r", "i", "n", "g", "]">>, NoLevel, ImageMetadata(TRUE, K_toString))>>

\* a subtitle with a sharp s, a section title of level 3, a chapter heading
\* and a paragraph that holds every character the component export escapes
BracesText == <<"{", "a", "}", " ", "&", " ", "<", "b", ">", " ", "\"", "c", "\"">>

HeadingSections ==
  <<Section("title", <<"S", "t", "r", "a", "ESZETT", "e">>, 2, NoMetadata),
    Section("title", <<"T", "h", "e", " ", "L", "o", "n", "g", " ", "R", "o", "a", "d", " ", "H", "o", "m", "e", " ", "A", "n", "d", " ", "B", "a", "c", "k", " ", "A", "g", "a", "i", "n">>, 3, NoMetadata),
    Section("chapter", <<"C", "h", "a", "p", "t", "e", "r", " ", "2">>, 1, ChapterMetadata(<<"2">>, Undefined)),
    Section("paragraph", BracesText, NoLevel, NoMetadata)>>

HandBuiltSections ==
  { <<Section("paragraph", ScriptText, NoLevel, NoMetadata)>>,
    MyBookSections, GallerySections, HeadingSections }

(***************************************************************************)
(* The state: what a caller of the pipeline holds.                         *)
(***************************************************************************)
VARIABLES
  text,            \* the manuscript text
  uploadedImages,  \* the image map: image key -> image payload
  blocks,          \* the block sequence the caller holds
  detector,        \* what produced blocks: "none", "formatText", "parseText", "caller"
  result,          \* the last render or export call and its outcome
  downloads        \* the number of files handed to downloadFile

vars == <<text, uploadedImages, blocks, detector, result, downloads>>

EmptyImageMap == [key \in {} |-> <<>>]

\* the image map that holds payload for key and nothing else
SingleImage(key, payload) == [k \in {key} |-> payload]

\* a call of a renderer: its arguments and what it returned or threw
Call(op, format, template, sections, images, error, file) ==
  [op |-> op, format |-> format, template |-> template, sections |-> sections,
   uploadedImages |-> images, error |-> error, file |-> file]

NoResult == Call("none", "none", <<>>, <<>>, EmptyImageMap, "none", NoFile)

\* the image maps a caller holds at the start: none, or the image that a
\* placeholder line of the manuscript names
InitialImageMaps(manuscript) ==
  {EmptyImageMap}
  \cup {SingleImage(key, payload) : key \in {k \in ImageKeys :
                                                \E tag \in ImageTags :
                                                  manuscript \in PlaceholderTexts(tag, k)},
                                    payload \in ImagePayloads}

\* the image maps a caller of the renderers passes with hand-built blocks
CallerImageMaps(sections) ==
  {EmptyImageMap}
  \cup {SingleImage(sections[i].metadata.filename, payload) :
          i \in {j \in 1..Len(sections) : sections[j].type = "image"
                                          /\ sections[j].metadata.filename \in ImageKeys},
          payload \in ImagePayloads}

Init ==
  /\ \/ /\ text \in Texts /\ blocks = <<>> /\ detector = "none"
        /\ uploadedImages \in InitialImageMaps(text)
     \/ /\ text = <<>> /\ blocks \in HandBuiltSections /\ detector = "caller"
        /\ uploadedImages \in CallerImageMaps(blocks)
  /\ result = NoResult
  /\ downloads = 0

\* formatText keeping no section for a blank line
FormatTextSkippingBlankLines ==
  /\ detector # "parseText"
  /\ blocks' = SelectSeq(formatText(text), LAMBDA section : section.type # "spacer")
  /\ detector' = "formatText"
  /\ UNCHANGED <<text, uploadedImages, result, downloads>>

\* formatter.formatText(text), as DownloadButton.getFormattedSections calls it
\* (the legacy application holds the blocks of parseText and has no formatter)
FormatText ==
  /\ detector # "parseText"
  /\ blocks' = formatText(text)
  /\ detector' = "formatText"
  /\ UNCHANGED <<text, uploadedImages, result, downloads>>

\* parseText(text) of the legacy application
ParseText ==
  /\ detector \in {"none", "parseText"}
  /\ blocks' = parseText(text)
  /\ detector' = "parseText"
  /\ UNCHANGED <<text, uploadedImages, result, downloads>>

\* handleImageInsert: store the payload, insert the placeholder on a line of
\* its own at the cursor; the memo on text then recomputes the sections
HandleImageInsert(imageData, filename, isFullPage, cursorPosition) ==
  /\ Len(text) <= MaxInsertLen
  /\ detector \in {"none", "formatText"}
  /\ uploadedImages' =
       [key \in DOMAIN uploadedImages \cup {filename} |->
          IF key = filename THEN imageData ELSE uploadedImages[key]]
  /\ text' = SubSeq(text, 1, cursorPosition) \o <<"\n">> \o Placeholder(isFullPage, filename)
             \o <<"\n">> \o Suffix(text, cursorPosition + 1)
  /\ blocks' = IF trim(text') # <<>> THEN formatText(text') ELSE <<>>
  /\ detector' = "formatText"
  /\ UNCHANGED <<result, downloads>>

\* renderToHTML taking each section off the caller's array as it renders it
RenderToHTMLShiftingSections(template) ==
  /\ detector \in {"formatText", "caller"}
  /\ result' = Call("renderToHTML", "html", template, blocks, uploadedImages, "none",
                     File(FileContent("plain", NoBundle,
                                      renderToHTML(template, blocks, uploadedImages)),
                          <<>>, "none"))
  /\ blocks' = <<>>
  /\ UNCHANGED <<text, uploadedImages, detector, downloads>>

\* a formatter built for template renders the held sections as the preview
RenderToHTML(template) ==
  /\ detector \in {"formatText", "caller"}
  /\ result' = Call("renderToHTML", "html", template, blocks, uploadedImages, "none",
                     File(FileContent("plain", NoBundle,
                                      renderToHTML(template, blocks, uploadedImages)),
                          <<>>, "none"))
  /\ UNCHANGED <<text, uploadedImages, blocks, detector, downloads>>

\* exportDocument(options): new ExportUtility(options).export()
Export(format, template) ==
  LET outcome == ExportResult(format, template, blocks, uploadedImages)
  IN  /\ detector \in {"formatText", "caller"}
      /\ outcome.error = "none" => downloads < MaxDownloads
      /\ result' = Call("export", format, template, blocks, uploadedImages,
                         outcome.error, outcome.file)
      /\ downloads' = IF outcome.error = "none" THEN downloads + 1 ELSE downloads
      /\ UNCHANGED <<text, uploadedImages, blocks, detector>>

Next ==
  \/ FormatText
  \/ ParseText
  \/ \E imageData \in ImagePayloads, filename \in ImageKeys, isFullPage \in BOOLEAN,
        cursorPosition \in 0..Len(text) :
       HandleImageInsert(imageData, filename, isFullPage, cursorPosition)
  \/ \E template \in TemplateIds : RenderToHTML(template)
  \/ \E format \in ExportFormats : \E template \in TemplatesFor(format) :
       Export(format, template)

Spec == Init /\ [][Next]_vars

(***************************************************************************)
(* Properties of the structure detector.                                   *)
(***************************************************************************)
\* the physical lines of the manuscript, as formatText splits them
Lines == split(text, "\n")

\* formatText has run on the manuscript and the caller holds its blocks
Formatted == detector = "formatText"

\* C1: blank-input law -- for the empty string and for a text of whitespace
\* and line breaks only, formatText and parseText return the empty block
\* sequence (no Spacer block).
C1_BlankInputYieldsNoBlocks ==
  (detector \in {"formatText", "parseText"} /\ trim(text) = <<>>) => blocks = <<>>

\* a trimmed line that is tag, a key without closing bracket, and "]"
IsPlaceholderOf(line, tag) ==
  LET t == trim(line)
  IN  /\ startsWith(t, tag) /\ Len(t) >= Len(tag) + 2 /\ t[Len(t)] = "]"
      /\ \A k \in (Len(tag) + 1)..(Len(t) - 1) : t[k] # "]"

\* the key between the tag and the closing bracket of a placeholder line
KeyOf(line, tag) == SubSeq(trim(line), Len(tag) + 1, Len(trim(line)) - 1)

PlaceholderLines == {i \in 1..Len(Lines) : \E tag \in ImageTags : IsPlaceholderOf(Lines[i], tag)}

ImageBlocks == {i \in 1..Len(blocks) : blocks[i].type = "image"}

\* C2: image-syntax round trip -- when exactly one line of the manuscript is
\* a placeholder [IMAGE:K] or [FULLPAGE:K], formatText yields exactly one
\* Image block, its key is K and its isFullPage tells which tag it was,
\* wherever the line stands.
C2_ImageSyntaxRoundTrip ==
  (Formatted /\ Cardinality(PlaceholderLines) = 1) =>
    /\ Cardinality(ImageBlocks) = 1
    /\ \A i \in ImageBlocks, j \in PlaceholderLines :
         /\ IsPlaceholderOf(Lines[j], TagFullPage) = blocks[i].metadata.isFullPage
         /\ blocks[i].metadata.filename =
              KeyOf(Lines[j], IF IsPlaceholderOf(Lines[j], TagFullPage)
                              THEN TagFullPage ELSE TagImage)

\* the <img> element of the HTML renderer for a source, a key and a class
ImgElement(src, key, class) ==
  <<"<", "i", "m", "g", " ", "s", "r", "c", "=", "\"">> \o src \o <<"\"", " ", "a", "l", "t", "=", "\"">> \o key \o <<"\"", " ", "c", "l", "a", "s", "s", "=", "\"">> \o class \o <<"\"", " ", "/", ">">>

\* C3: end-to-end image resolution -- rendering the blocks detected in the
\* one-line manuscript [IMAGE:K] (or [FULLPAGE:K]) to HTML with an image map
\* that holds K produces an <img> element whose src is the payload of K,
\* with the inline (or full-page) class.
C3_ImageResolvesEndToEnd ==
  \A key \in ImageKeys, isFullPage \in BOOLEAN :
    ( /\ result.op = "renderToHTML"
      /\ text = Placeholder(isFullPage, key)
      /\ result.sections = formatText(text)
      /\ key \in DOMAIN result.uploadedImages ) =>
      includes(result.file.content.body,
               ImgElement(result.uploadedImages[key], key,
                          IF isFullPage THEN <<"i", "m", "a", "g", "e", "-", "f", "u", "l", "l", "p", "a", "g", "e">> ELSE <<"i", "m", "a", "g", "e", "-", "i", "n", "l", "i", "n", "e">>))

\* the tag of a line whose tag is written in any letter case, <<>> if none
TagOfAnyCase(line) ==
  LET t == trim(line)
      found == {tag \in ImageTags : MatchesAtCI(t, 1, toLowerCase(tag))}
  IN  IF found = {} THEN <<>> ELSE CHOOSE tag \in found : TRUE

\* the line with its tag in upper case
UpperTagLine(line) ==
  LET t == trim(line)
  IN  IF TagOfAnyCase(line) = <<>> THEN line
      ELSE TagOfAnyCase(line) \o Suffix(t, Len(TagOfAnyCase(line)) + 1)

UpperTagText == join([i \in 1..Len(Lines) |-> UpperTagLine(Lines[i])], <<"\n">>)

\* C4: the placeholder tag is matched in any letter case -- a line such as
\* [image:K], [Image:K] or [fullpage:K] is classified as its upper-case form
\* is: where that form gives an Image block, the line gives an Image block
\* with the same key and the same isFullPage.
C4_TagCaseInsensitive ==
  Formatted =>
    \A i \in 1..Len(Lines) :
      LET upper == formatText(UpperTagText)
      IN  (TagOfAnyCase(Lines[i]) # <<>> /\ upper[i].type = "image") =>
            /\ blocks[i].type = "image"
            /\ blocks[i].metadata.filename = upper[i].metadata.filename
            /\ blocks[i].metadata.isFullPage = upper[i].metadata.isFullPage

(***************************************************************************)
(* Properties of the renderers.                                            *)
(***************************************************************************)
\* a text with the four markup characters of HTML replaced by entities
EscapeMarkup(s) ==
  ReplaceChar(ReplaceChar(ReplaceChar(ReplaceChar(s, "&", <<"&", "a", "m", "p", ";">>), "<", <<"&", "l", "t", ";">>),
                          ">", <<"&", "g", "t", ";">>), "\"", <<"&", "q", "u", "o", "t", ";">>)

\* the HTML text of the last call
Body == result.file.content.body

\* C5: HTML escaping -- renderToHTML emits the text of every Title, Chapter
\* and Paragraph block with &, <, > and " escaped; rendering a block whose
\* text holds <script> never yields the literal substring <script>.
C5_HTMLEscapesBlockText ==
  result.op = "renderToHTML" =>
    \A i \in 1..Len(result.sections) :
      LET block == result.sections[i]
      IN  block.type \in {"title", "chapter", "paragraph"} =>
            /\ includes(Body, EscapeMarkup(block.content))
            /\ includes(block.content, <<"<", "s", "c", "r", "i", "p", "t", ">">>) => ~includes(Body, <<"<", "s", "c", "r", "i", "p", "t", ">">>)

\* the calls that render HTML for a template
RendersHTML ==
  result.op = "renderToHTML" \/ (result.op = "export" /\ result.format = "html")

\* C6: an unknown template signals failure -- rendering HTML (renderToHTML,
\* getTemplateCSS, the html export) with a template outside classic, modern,
\* elegant, scifi raises TemplateNotFound and produces no output; no default
\* style bundle is substituted.
C6_UnknownTemplateSignalsFailure ==
  (RendersHTML /\ result.template \notin KnownTemplates) =>
    result.error = "TemplateNotFound" /\ result.file = NoFile

\* C7: an unsupported format signals failure -- export with a format outside
\* the implemented set fails with the unsupported-format error, hands no
\* file to downloadFile and leaves the download count as it was, on every
\* call, a repeated one included.
C7_UnsupportedFormatFails ==
  [][(result'.op = "export" /\ result'.format \notin ImplementedFormats) =>
       /\ result'.error = UnsupportedFormat
       /\ result'.file = NoFile
       /\ downloads' = downloads]_vars

\* an export of detected blocks in an unsupported format has failed after a
\* file had been downloaded
C7_Witness ==
  /\ result.op = "export" /\ result.format = "epub"
  /\ result.error = UnsupportedFormat
  /\ result.sections # <<>> /\ downloads > 0

\* the non-blank lines of the manuscript
NonBlank == {i \in 1..Len(Lines) : trim(Lines[i]) # <<>>}

\* C9: the first non-blank line is a heading -- the block of the first
\* non-blank line is a Title or a Chapter, never a Paragraph, also when
\* blank lines precede it.
C9_FirstNonBlankLineIsHeading ==
  (Formatted /\ NonBlank # {}) => blocks[Min(NonBlank)].type \in {"title", "chapter"}

Kinds(sections) == [i \in 1..Len(sections) |-> sections[i].type]

Contents(sections) == [i \in 1..Len(sections) |-> sections[i].content]

\* C10 as documented: the manuscript "My Book" yields Title, Spacer,
\* Chapter("Chapter 1", level 1), Paragraph("The Start"), Spacer,
\* Paragraph("Some prose here."), and the manuscript "Title" yields the kinds
\* Title, Spacer, Chapter, Paragraph, Spacer, Chapter, Paragraph: the short
\* line after a chapter heading line is a Paragraph.
C10_ScenarioAsDocumented ==
  Formatted =>
    /\ text = ScenarioMyBook =>
         /\ Kinds(blocks) = <<"title", "spacer", "chapter", "paragraph", "spacer", "paragraph">>
         /\ Contents(blocks) = <<<<"M", "y", " ", "B", "o", "o", "k">>, <<>>, <<"C", "h", "a", "p", "t", "e", "r", " ", "1">>, <<"T", "h", "e", " ", "S", "t", "a", "r", "t">>, <<>>,
                                 <<"S", "o", "m", "e", " ", "p", "r", "o", "s", "e", " ", "h", "e", "r", "e", ".">>>>
         /\ blocks[3].level = 1
    /\ text = ScenarioTitle =>
         Kinds(blocks) = <<"title", "spacer", "chapter", "paragraph", "spacer", "chapter",
                           "paragraph">>

\* C10: the concrete detection scenario -- the manuscript "My Book" yields
\* Title("My Book"), Spacer, Chapter("Chapter 1", level 1), Title("The
\* Start"), Spacer, Paragraph("Some prose here."), and the manuscript "Title"
\* yields the kinds Title, Spacer, Chapter, Title, Spacer, Chapter, Title:
\* in both, the short line after a chapter heading line is a Title.
C10_ScenarioAsDetected ==
  Formatted =>
    /\ text = ScenarioMyBook =>
         /\ Kinds(blocks) = <<"title", "spacer", "chapter", "title", "spacer", "paragraph">>
         /\ Contents(blocks) = <<<<"M", "y", " ", "B", "o", "o", "k">>, <<>>, <<"C", "h", "a", "p", "t", "e", "r", " ", "1">>, <<"T", "h", "e", " ", "S", "t", "a", "r", "t">>, <<>>,
                                 <<"S", "o", "m", "e", " ", "p", "r", "o", "s", "e", " ", "h", "e", "r", "e", ".">>>>
         /\ blocks[3].level = 1
    /\ text = ScenarioTitle =>
         Kinds(blocks) = <<"title", "spacer", "chapter", "title", "spacer", "chapter", "title">>

\* formatText has run on the manuscript "My Book"
C10_Witness == Formatted /\ text = ScenarioMyBook /\ Len(blocks) = 6

\* the calls that export Markdown
ExportsMarkdown == result.op = "export" /\ result.format = "markdown"

\* C11 as documented: the Markdown of the block sequence "My Book" is
\* "# My Book\n\n## Chapter 1\n\nThe Start\n\nSome prose here.": one double
\* line break between neighbouring non-spacer blocks, none for a Spacer.
C11_MarkdownAsDocumented ==
  (ExportsMarkdown /\ result.sections = MyBookSections) =>
    Body = <<"#", " ", "M", "y", " ", "B", "o", "o", "k", "\n", "\n", "#", "#", " ", "C", "h", "a", "p", "t", "e", "r", " ", "1", "\n", "\n", "T", "h", "e", " ", "S", "t", "a", "r", "t", "\n", "\n", "S", "o", "m", "e", " ", "p", "r", "o", "s", "e", " ", "h", "e", "r", "e", ".">>

\* C11: the concrete Markdown scenario -- the Markdown of the block sequence
\* [Title("My Book", 1), Spacer, Chapter("Chapter 1"), Paragraph("The
\* Start"), Spacer, Paragraph("Some prose here.")] is exactly
\* "# My Book\n\n\n\n## Chapter 1\n\nThe Start\n\n\n\nSome prose here.": every
\* block, a Spacer included, is one fragment of the join, and a Spacer's
\* fragment is empty.
C11_MarkdownAsRendered ==
  (ExportsMarkdown /\ result.sections = MyBookSections) =>
    Body = <<"#", " ", "M", "y", " ", "B", "o", "o", "k", "\n", "\n", "\n", "\n", "#", "#", " ", "C", "h", "a", "p", "t", "e", "r", " ", "1", "\n", "\n", "T", "h", "e", " ", "S", "t", "a", "r", "t", "\n", "\n", "\n", "\n", "S", "o", "m", "e", " ", "p", "r", "o", "s", "e", " ", "h", "e", "r", "e", ".">>

\* the block sequence "My Book" has been exported as Markdown
C11_Witness ==
  /\ ExportsMarkdown /\ result.sections = MyBookSections
  /\ result.error = "none" /\ downloads = 1

\* the positions of character c in s
PositionsOf(s, c) == {k \in 1..Len(s) : s[k] = c}

\* a line that starts with an image tag and has no closing bracket
IsUnclosedPlaceholder(line) ==
  LET t == trim(line)
  IN  /\ \E tag \in ImageTags : startsWith(t, tag)
      /\ PositionsOf(t, "]") = {}

\* a bracketed line [TAG:value] whose tag names no image in any letter case
IsUnknownTagPlaceholder(line) ==
  LET t == trim(line)
  IN  /\ Len(t) >= 4 /\ t[1] = "[" /\ PositionsOf(t, "]") = {Len(t)}
      /\ PositionsOf(t, ":") # {}
      /\ Min(PositionsOf(t, ":")) \in 3..(Len(t) - 2)
      /\ toLowerCase(SubSeq(t, 2, Min(PositionsOf(t, ":")) - 1)) \notin LegacyImageTags

MalformedPlaceholderLines ==
  {i \in 1..Len(Lines) : IsUnclosedPlaceholder(Lines[i]) \/ IsUnknownTagPlaceholder(Lines[i])}

\* C12: detection degrades to Paragraph -- a malformed image placeholder line
\* (an [IMAGE: or [FULLPAGE: prefix with no closing bracket, or a bracketed
\* [TAG:value] line whose tag is not an image tag) is classified Paragraph,
\* not Image, Title or Chapter.
C12_MalformedPlaceholderIsParagraph ==
  Formatted => \A i \in MalformedPlaceholderLines : blocks[i].type = "paragraph"

\* the calls whose output holds an element for every block: the HTML
\* renderer, the html export and the component export
RendersElements ==
  \/ result.op = "renderToHTML"
  \/ result.op = "export" /\ result.format \in {"html", "jsx"}

\* the number of places where p stands in s
CountOccurrences(s, p) == Cardinality({k \in 1..Len(s) : MatchesAt(s, k, p)})

\* the Image blocks of the last call, and those whose key has an entry in
\* the image map of the call
RenderedImages == {i \in 1..Len(result.sections) : result.sections[i].type = "image"}

ResolvedImages ==
  {i \in RenderedImages : result.sections[i].metadata.filename \in DOMAIN result.uploadedImages}

\* the attributes that follow the source of the <img> of an Image block
ImgAttributes(section, format) ==
  LET class == IF section.metadata.isFullPage THEN <<"i", "m", "a", "g", "e", "-", "f", "u", "l", "l", "p", "a", "g", "e">> ELSE <<"i", "m", "a", "g", "e", "-", "i", "n", "l", "i", "n", "e">>
  IN  IF format = "jsx"
      THEN <<"a", "l", "t", "=", "\"">> \o section.metadata.filename \o <<"\"", " ", "\n", " ", " ", " ", " ", " ", " ", " ", " ", "c", "l", "a", "s", "s", "N", "a", "m", "e", "=", "\"">> \o class \o <<"\"">>
      ELSE <<"a", "l", "t", "=", "\"">> \o section.metadata.filename \o <<"\"", " ", "c", "l", "a", "s", "s", "=", "\"">> \o class \o <<"\"">>

\* C13: a missing image key is not an error -- the HTML renderer and the
\* component export emit an <img> element for an Image block if and only if
\* its key has an entry in the image map, with class image-fullpage when
\* isFullPage is true and image-inline otherwise; for a key without entry
\* they emit nothing and raise no error.
C13_ImgIffKeyInImageMap ==
  RendersElements =>
    /\ result.error = "none"
    /\ CountOccurrences(Body, <<"<", "i", "m", "g", " ">>) = Cardinality(ResolvedImages)
    /\ \A i \in ResolvedImages :
         includes(Body, <<"s", "r", "c", "=", "\"">> \o result.uploadedImages[result.sections[i].metadata.filename]
                        \o <<"\"", " ">> \o (IF result.format = "jsx" THEN <<"\n", " ", " ", " ", " ", " ", " ", " ", " ">> ELSE <<>>)
                        \o ImgAttributes(result.sections[i], result.format))

\* the text formatText stores for line i of the manuscript in a block of
\* the kind of blocks[i]
LineContent(i) ==
  IF blocks[i].type = "paragraph" THEN formatParagraph(trim(Lines[i])) ELSE trim(Lines[i])

\* block i is the block of line i, for every line
DetectedInLineOrder ==
  /\ Len(blocks) = Len(Lines)
  /\ \A i \in 1..Len(blocks) :
       /\ blocks[i].content = LineContent(i)
       /\ blocks[i].type = "spacer" <=> trim(Lines[i]) = <<>>

\* the fragment the renderer of the last call emits for block i
FragmentOf(i) ==
  LET section == result.sections[i]
  IN  CASE result.format = "html" -> RenderSectionHTML(section, result.uploadedImages)
        [] result.format = "jsx" -> JSXSection(section, result.uploadedImages)
        [] result.format = "markdown" -> MarkdownSection(section)
        [] result.format = "txt" -> TextSection(section)
        [] result.format = "docx" -> DOCXSection(section)
        [] OTHER -> <<>>

\* what stands between two fragments, and before the first one
SeparatorLen == IF result.format \in {"markdown", "txt"} THEN 2 ELSE 0

HeaderLen == IF result.format = "html" THEN Len(<<"<", "d", "i", "v", " ", "c", "l", "a", "s", "s", "=", "\"", "t", "e", "m", "p", "l", "a", "t", "e", "-">>) + Len(result.template) + Len(<<"\"", ">">>) ELSE 0

\* the position in the output before fragment i
RECURSIVE FragmentStart(_)
FragmentStart(i) ==
  IF i = 1 THEN HeaderLen
  ELSE FragmentStart(i - 1) + Len(FragmentOf(i - 1)) + SeparatorLen

\* fragment i stands at its position, after the fragments of the blocks
\* before it, and the separator follows every fragment but the last
RenderedInBlockOrder ==
  \A i \in 1..Len(result.sections) :
    /\ SubSeq(Body, FragmentStart(i) + 1, FragmentStart(i) + Len(FragmentOf(i))) = FragmentOf(i)
    /\ i < Len(result.sections) /\ SeparatorLen = 2 =>
         SubSeq(Body, FragmentStart(i) + Len(FragmentOf(i)) + 1,
                FragmentStart(i) + Len(FragmentOf(i)) + 2) = <<"\n", "\n">>
    /\ i = Len(result.sections) =>
         Len(Body) = FragmentStart(i) + Len(FragmentOf(i))
                     + (IF result.format = "html" THEN Len(<<"<", "/", "d", "i", "v", ">">>) ELSE 0)

\* C14: order preservation -- the detected blocks stand in the order of the
\* source lines they came from, one block per line, and in every output
\* format the rendered fragments stand in the order of the blocks; nothing
\* is reordered, merged or deduplicated (two identical lines yield two
\* blocks and two rendered fragments).
C14_OrderPreserved ==
  /\ Formatted => DetectedInLineOrder
  /\ (result.op # "none" /\ result.error = "none") => RenderedInBlockOrder

\* a manuscript of two identical lines has been detected as two equal blocks
\* and exported as two fragments
C14_Witness ==
  /\ Formatted /\ text = <<"a", "\n", "a">> /\ Len(blocks) = 2 /\ blocks[1] = blocks[2]
  /\ result.op = "export" /\ result.format = "txt" /\ result.sections = blocks
  /\ Body = <<"A", "\n", "=", "\n", "\n", "A", "\n", "=">>

(***************************************************************************)
(* Frame of the calls.                                                     *)
(***************************************************************************)
\* C15: purity and frame -- after formatText the blocks the caller holds are
\* formatText of the raw text, whatever calls, with whatever template, came
\* before; and a detector or renderer call (a step that is not an edit of
\* the manuscript) leaves the raw text and the image map as they were, a
\* renderer call also the block sequence and its blocks, reading exactly the
\* blocks and the image map the caller holds.
C15_CallsLeaveInputsAlone ==
  /\ [](Formatted => blocks = formatText(text))
  /\ [][text' = text =>
          /\ uploadedImages' = uploadedImages
          /\ result' # result =>
               /\ blocks' = blocks
               /\ result'.sections = blocks
               /\ result'.uploadedImages = uploadedImages]_vars

\* blocks detected in a manuscript with an image have been rendered for one
\* template after a file had been exported, and the caller still holds them
C15_Witness ==
  /\ Formatted /\ Len(blocks) > 1 /\ uploadedImages # EmptyImageMap
  /\ result.op = "renderToHTML" /\ result.template = T_scifi /\ downloads = 1
  /\ result.sections = blocks /\ blocks = formatText(text)

(***************************************************************************)
(* Properties of the recognizers.                                          *)
(***************************************************************************)
\* the recognizers of formatText, each on its own, for line i
IsBlankLine(i) == trim(Lines[i]) = <<>>

IsImageLine(i) == startsWith(trim(Lines[i]), TagImage) \/ startsWith(trim(Lines[i]), TagFullPage)

IsChapterLine(i) == detectChapter(trim(Lines[i])).matched

IsTitleLine(i) == isTitle(trim(Lines[i]), i - 1, Lines)

\* the kind of the first recognizer that matches line i, in the order
\* blank, image placeholder, chapter heading, generic title, paragraph
FirstMatchKind(i) ==
  IF IsBlankLine(i) THEN "spacer"
  ELSE IF IsImageLine(i) THEN "image"
  ELSE IF IsChapterLine(i) THEN "chapter"
  ELSE IF IsTitleLine(i) THEN "title"
  ELSE "paragraph"

\* C16: recognizer precedence -- every line gets the kind of the first
\* recognizer that matches it in the order blank, image placeholder, chapter
\* heading, generic title, paragraph; so a line that matches a chapter
\* pattern and the title heuristic ("PART I", "Chapter 1" on the first line)
\* is a Chapter, never a Title.
C16_FirstMatchInDocumentedOrder ==
  Formatted => \A i \in 1..Len(blocks) : blocks[i].type = FirstMatchKind(i)

\* the part of the order that decides between Chapter and Title
ChapterBeforeTitle ==
  Formatted => \A i \in 1..Len(blocks) :
    (~IsBlankLine(i) /\ IsChapterLine(i) /\ IsTitleLine(i)) => blocks[i].type = "chapter"

\* a detector has run on the manuscript and the caller holds its blocks
Detected == detector \in {"formatText", "parseText"}

\* the block of the non-blank line i: formatText keeps a block for every
\* line, parseText for every non-blank line
BlockOfLine(i) ==
  IF Formatted THEN blocks[i] ELSE blocks[Cardinality({h \in NonBlank : h <= i})]

\* the level each standalone section name has in the level table
SectionNameLevel ==
  [name \in {<<"p", "r", "o", "l", "o", "g", "u", "e">>, <<"e", "p", "i", "l", "o", "g", "u", "e">>} |-> 1]
  @@ [name \in {<<"i", "n", "t", "r", "o", "d", "u", "c", "t", "i", "o", "n">>, <<"p", "r", "e", "f", "a", "c", "e">>} |-> 2]
  @@ [name \in {<<"a", "c", "k", "n", "o", "w", "l", "e", "d", "g", "m", "e", "n", "t", "s">>,
                 <<"a", "b", "o", "u", "t", " ", "t", "h", "e", " ", "a", "u", "t", "h", "o", "r">>} |-> 3]

\* the line in lower case, as the vocabulary is matched
LowerLine(line) == toLowerCase(trim(line))

\* the level of the table for the text of a heading
TableLevel(content) ==
  IF LowerLine(content) \in DOMAIN SectionNameLevel THEN SectionNameLevel[LowerLine(content)] ELSE 1

SectionNameLinesOfText == {i \in NonBlank : LowerLine(Lines[i]) \in DOMAIN SectionNameLevel}

\* C17: heading vocabulary and level table -- a standalone line prologue,
\* epilogue, introduction, preface, acknowledgments or "about the author",
\* in any letter case, is a Chapter block, and the level of every Chapter
\* block is the one of the table: 2 for introduction and preface, 3 for
\* acknowledgments and about the author, 1 for everything else.
C17_VocabularyAndLevelTable ==
  Detected =>
    /\ \A i \in SectionNameLinesOfText : BlockOfLine(i).type = "chapter"
    /\ \A k \in 1..Len(blocks) :
         blocks[k].type = "chapter" => blocks[k].level = TableLevel(blocks[k].content)

\* the same of the legacy detector alone
LegacyVocabularyAndLevelTable == detector = "parseText" => C17_VocabularyAndLevelTable

\* keyword, whitespace, a number token of one of the given kinds, then the
\* end of the line or a separator and a subtitle
IsKeywordHeading(s, keyword, withWords, withRoman) ==
  LET i == KeywordEnd(s, keyword)
      ends == {DigitsEnd(s, i)}
              \cup (IF withWords THEN {WordEnd(s, i, NumberWordsTen)} ELSE {})
              \cup (IF withRoman THEN {RomanEnd(s, i)} ELSE {})
  IN  i > 0 /\ \E j \in ends : j > 0 /\ (TailAbsent(s, j) \/ TailPresent(s, j))

\* digits, a dot, whitespace and a title
IsNumberedHeading(s) ==
  LET j == DigitsEnd(s, 1)
  IN  /\ j > 0 /\ j + 2 <= Len(s) /\ s[j] = "." /\ IsWhitespace(s[j + 1])

\* a line of one of the documented heading forms, in any letter case
IsHeadingForm(line) ==
  LET s == trim(line)
  IN  \/ IsKeywordHeading(s, W_chapter, TRUE, TRUE)
      \/ IsKeywordHeading(s, W_part, FALSE, FALSE)
      \/ IsKeywordHeading(s, W_book, FALSE, FALSE)
      \/ IsKeywordHeading(s, W_section, FALSE, FALSE)
      \/ IsNumberedHeading(s)

HeadingFormLines == {i \in NonBlank : IsHeadingForm(Lines[i])}

\* C18: chapter pattern coverage -- every line of the form "Chapter N" (N
\* digits, a number word one to ten, or a roman numeral, with or without a
\* separator and a subtitle), "Part N", "Book N", "Section N" or "N. Title",
\* in any letter case, is a Chapter block.
C18_HeadingFormsAreChapters ==
  Detected => \A i \in HeadingFormLines : BlockOfLine(i).type = "chapter"

\* the forms but "Book N" under formatText, and but "Section N" under the
\* legacy detector
CoveredHeadingForms ==
  /\ Formatted =>
       \A i \in HeadingFormLines :
         ~IsKeywordHeading(trim(Lines[i]), W_book, FALSE, FALSE) => blocks[i].type = "chapter"
  /\ detector = "parseText" =>
       \A i \in HeadingFormLines :
         ~IsKeywordHeading(trim(Lines[i]), W_section, FALSE, FALSE) => BlockOfLine(i).type = "chapter"

\* the lines the title heuristic decides by length, punctuation and letter
\* case: not the first non-blank line, not entirely upper-case, no chapter
\* and no image pattern
HeuristicLines ==
  {i \in NonBlank : /\ i # Min(NonBlank)
                    /\ trim(Lines[i]) # toUpperCase(trim(Lines[i]))
                    /\ ~IsChapterLine(i) /\ ~IsImageLine(i)
                    /\ TagOfAnyCase(Lines[i]) = <<>>}

\* C19: the title heuristic respects sentence punctuation -- a line that is
\* not the first non-blank line, not entirely upper-case and matches no
\* chapter or image pattern is a Title only if it is short and does not end
\* with '.', '!' or '?'; the short title-cased sentence "He Ran Away." is a
\* Paragraph.
C19_TitleOnlyWithoutSentencePunctuation ==
  Formatted =>
    \A i \in HeuristicLines :
      blocks[i].type = "title" =>
        /\ Len(trim(Lines[i])) < TitleCaseMaxLen
        /\ ~EndsWithSentencePunctuation(trim(Lines[i]))

(***************************************************************************)
(* Properties of the paragraph text.                                       *)
(***************************************************************************)
ParagraphBlocks == {i \in 1..Len(blocks) : blocks[i].type = "paragraph"}

HasWhitespaceRun(s) == \E k \in 1..(Len(s) - 1) : IsWhitespace(s[k]) /\ IsWhitespace(s[k + 1])

\* C20: paragraph normalisation -- the text of every Paragraph block of
\* formatText holds no run of two or more whitespace characters, no run of
\* three or more dots, no " -- " and no " - " with a plain hyphen.
C20_ParagraphsNormalised ==
  Formatted =>
    \A i \in ParagraphBlocks :
      /\ ~HasWhitespaceRun(blocks[i].content)
      /\ ~includes(blocks[i].content, <<".", ".", ".">>)
      /\ ~includes(blocks[i].content, <<" ", "-", "-", " ">>)
      /\ ~includes(blocks[i].content, <<" ", "-", " ">>)

\* the three parts that do not concern the plain hyphen
ParagraphsNormalisedButHyphen ==
  Formatted =>
    \A i \in ParagraphBlocks :
      /\ ~HasWhitespaceRun(blocks[i].content)
      /\ ~includes(blocks[i].content, <<".", ".", ".">>)
      /\ ~includes(blocks[i].content, <<" ", "-", "-", " ">>)

\* C21: quote normalisation is complete -- the text of every Paragraph block
\* of formatText holds no straight double quote and no straight single
\* quote: every straight quote of the line, paired or not, an apostrophe
\* included, has become a curly quote.
C21_NoStraightQuoteInParagraphs ==
  Formatted =>
    \A i \in ParagraphBlocks :
      PositionsOf(blocks[i].content, "\"") = {} /\ PositionsOf(blocks[i].content, "'") = {}

\* the paired quotes of a line do become curly quotes: at most one straight
\* quote of each kind is left in a Paragraph
AtMostOneStraightQuote ==
  Formatted =>
    \A i \in ParagraphBlocks :
      /\ Cardinality(PositionsOf(blocks[i].content, "\"")) <= 1
      /\ Cardinality(PositionsOf(blocks[i].content, "'")) <= 1

(***************************************************************************)
(* Classification and normalisation.                                       *)
(***************************************************************************)
\* the kind the recognizers of formatText give the trimmed source line i, in
\* the order the loop tries them
RawKind(i) ==
  IF IsBlankLine(i) THEN "spacer"
  ELSE IF IsChapterLine(i) THEN "chapter"
  ELSE IF IsTitleLine(i) THEN "title"
  ELSE IF IsImageLine(i) THEN "image"
  ELSE "paragraph"

HasLevel(section) == section.level # NoLevel

\* section carries the metadata object of an image: the isFullPage flag and
\* the filename property
HasImageMetadata(section) == section.metadata.kind = "image"

\* section carries an image reference: the flag and a key
HasImageReference(section) ==
  /\ HasImageMetadata(section)
  /\ section.metadata.isFullPage \in BOOLEAN
  /\ section.metadata.filename # Undefined

\* C23: block well-formedness -- in every sequence returned by formatText a
\* block carries a level exactly when it is a Title or a Chapter, that level
\* is in 1..3, and a block carries an image reference, the isFullPage flag
\* and the key, exactly when it is an Image.
C23_BlocksWellFormed ==
  Formatted =>
    \A i \in 1..Len(blocks) :
      /\ HasLevel(blocks[i]) <=> blocks[i].type \in {"title", "chapter"}
      /\ HasLevel(blocks[i]) => blocks[i].level \in 1..3
      /\ HasImageReference(blocks[i]) <=> blocks[i].type = "image"

\* levels are as documented, and the metadata object of an image is on the
\* Image blocks and on no other block; its filename may be undefined
LevelsAndImageMetadataWellFormed ==
  Formatted =>
    \A i \in 1..Len(blocks) :
      /\ HasLevel(blocks[i]) <=> blocks[i].type \in {"title", "chapter"}
      /\ HasLevel(blocks[i]) => blocks[i].level \in 1..3
      /\ HasImageMetadata(blocks[i]) <=> blocks[i].type = "image"
      /\ HasImageReference(blocks[i]) => blocks[i].type = "image"


(***************************************************************************)
(* The mapping of each renderer.                                           *)
(***************************************************************************)
\* the element <tag>content</tag>
HtmlElement(tag, content) ==
  <<"<">> \o tag \o <<">">> \o content \o <<"<", "/">> \o tag \o <<">">>

\* the fragment the HTML mapping table gives a section; the fragment of an
\* Image, and of a Title without a level in 1..3, is the one the renderer
\* emits
HtmlFragment(section, images) ==
  CASE section.type = "title" /\ section.level \in 1..3 ->
         HtmlElement(<<"h", (<<"1", "2", "3">>)[section.level]>>, section.content)
    [] section.type = "chapter" -> HtmlElement(<<"h", "2">>, section.content)
    [] section.type = "paragraph" -> HtmlElement(<<"p">>, section.content)
    [] section.type = "spacer" -> <<"<", "d", "i", "v", " ", "c", "l", "a", "s", "s", "=", "\"", "s", "p", "a", "c", "e", "r", "\"", ">", "<", "/", "d", "i", "v", ">">>
    [] OTHER -> RenderSectionHTML(section, images)

\* C24: HTML mapping and join -- renderToHTML maps a Title of level L in 1..3
\* to <hL>text</hL>, a Chapter to <h2>text</h2>, a Paragraph to <p>text</p>
\* and a Spacer to <div class="spacer"></div>, and puts the fragments one
\* after the other, with nothing between them, inside one container that
\* carries the class template-<requested template>.
C24_HTMLMappingAndJoin ==
  (RendersHTML /\ result.error = "none") =>
    Body = <<"<", "d", "i", "v", " ", "c", "l", "a", "s", "s", "=", "\"", "t", "e", "m", "p", "l", "a", "t", "e", "-">> \o result.template \o <<"\"", ">">>
           \o Concat([i \in 1..Len(result.sections) |->
                        HtmlFragment(result.sections[i], result.uploadedImages)])
           \o <<"<", "/", "d", "i", "v", ">">>

\* titles of level 2 and 3, a chapter and a paragraph have been rendered for
\* the template classic
C24_Witness ==
  /\ result.op = "renderToHTML" /\ result.sections = HeadingSections
  /\ result.template = T_classic
  /\ startsWith(Body, <<"<", "d", "i", "v", " ", "c", "l", "a", "s", "s", "=", "\"", "t", "e", "m", "p", "l", "a", "t", "e", "-", "c", "l", "a", "s", "s", "i", "c", "\"", ">", "<", "h", "2", ">", "S", "t", "r", "a">>)
  /\ includes(Body, <<"<", "h", "3", ">", "T", "h", "e", " ", "L", "o", "n", "g", " ", "R", "o", "a", "d", " ", "H", "o", "m", "e", " ", "A", "n", "d", " ", "B", "a", "c", "k", " ", "A", "g", "a", "i", "n", "<", "/", "h", "3", ">", "<", "h", "2", ">", "C", "h", "a", "p", "t", "e", "r", " ", "2", "<", "/", "h", "2", ">", "<", "p", ">", "{", "a", "}">>)
  /\ endsWith(Body, <<"<", "/", "p", ">", "<", "/", "d", "i", "v", ">">>)


\* the string the Markdown mapping table gives a section; the string of a
\* Title without a level, and of an Image without a key, is the one the
\* exporter prints
MarkdownFragment(section) ==
  CASE section.type = "title" /\ section.level \in 1..3 ->
         [k \in 1..section.level |-> "#"] \o <<" ">> \o section.content
    [] section.type = "chapter" -> <<"#", "#", " ">> \o section.content
    [] section.type = "paragraph" -> section.content
    [] section.type = "spacer" -> <<>>
    [] section.type = "image" /\ section.metadata.filename # Undefined ->
         <<"!", "[">> \o section.metadata.filename \o <<"]", "(">> \o section.metadata.filename \o <<")">>
         \o (IF section.metadata.isFullPage THEN <<" ", "{", ".", "f", "u", "l", "l", "-", "p", "a", "g", "e", "}">> ELSE <<>>)
    [] OTHER -> MarkdownSection(section)

\* the fragments of the sections 1..n with one double line break between
\* neighbours
RECURSIVE MarkdownOfFirst(_, _)
MarkdownOfFirst(sections, n) ==
  IF n = 0 THEN <<>>
  ELSE IF n = 1 THEN MarkdownFragment(sections[1])
  ELSE MarkdownOfFirst(sections, n - 1) \o <<"\n", "\n">> \o MarkdownFragment(sections[n])

\* C25: Markdown mapping -- exportAsMarkdown maps a Title of level L to L
\* '#' characters, a space and the text, a Chapter to "## " and the text, a
\* Paragraph to its text unescaped, a Spacer to the empty string, an Image
\* with key K to ![K](K), followed by " {.full-page}" exactly when isFullPage
\* is true, whatever the image map holds, and joins the strings with exactly
\* one double line break between consecutive blocks.
C25_MarkdownMappingAndJoin ==
  ExportsMarkdown => Body = MarkdownOfFirst(result.sections, Len(result.sections))

\* three Image blocks have been exported as Markdown by a caller whose image
\* map holds one of the keys
C25_Witness ==
  /\ ExportsMarkdown /\ result.sections = GallerySections
  /\ result.uploadedImages # EmptyImageMap
  /\ Body = <<"!", "[", "k", "]", "(", "k", ")", "\n", "\n", "!", "[", "K", "1", "]", "(", "K", "1", ")", " ", "{", ".", "f", "u", "l", "l", "-", "p", "a", "g", "e", "}", "\n", "\n", "!", "[", "t", "o", "S", "t", "r", "i", "n", "g", "]", "(", "t", "o", "S", "t", "r", "i", "n", "g", ")", " ", "{", ".", "f", "u", "l", "l", "-", "p", "a", "g", "e", "}">>


\* the calls that export plain text
ExportsText == result.op = "export" /\ result.format = "txt"

\* the lines of the plain-text output: the output split at its line feeds
TextLines == split(Body, "\n")

\* the string exportAsText prints for the sections before section i, with
\* the double line break that follows it
TextBefore(i) ==
  IF i = 1 THEN <<>> ELSE exportAsText(SubSeq(result.sections, 1, i - 1)) \o <<"\n", "\n">>

\* the number of the output line on which the fragment of section i starts
FirstTextLine(i) == Cardinality(PositionsOf(TextBefore(i), "\n")) + 1

IsRunOf(s, c) == \A k \in 1..Len(s) : s[k] = c

\* C26: plain-text underlines match -- exportAsText renders a Title as its
\* upper-cased text followed on the next line by a run of '=' as long as the
\* printed title line, a Chapter as blank lines, then the text, then on the
\* next line a run of '-' as long as the text, and an Image with key K as
\* [Image: K].
C26_TextUnderlinesMatch ==
  ExportsText =>
    \A i \in 1..Len(result.sections) :
      LET section == result.sections[i]
          first == FirstTextLine(i)
      IN  /\ section.type = "title" =>
               /\ TextLines[first] = toUpperCase(section.content)
               /\ IsRunOf(TextLines[first + 1], "=")
               /\ Len(TextLines[first + 1]) = Len(TextLines[first])
          /\ section.type = "chapter" =>
               /\ TextLines[first] = <<>> /\ TextLines[first + 1] = <<>>
               /\ TextLines[first + 2] = section.content
               /\ IsRunOf(TextLines[first + 3], "-")
               /\ Len(TextLines[first + 3]) = Len(section.content)
          /\ (section.type = "image" /\ section.metadata.filename # Undefined) =>
               TextLines[first] = <<"[", "I", "m", "a", "g", "e", ":", " ">> \o section.metadata.filename \o <<"]">>

\* the same with an underline as long as the text of the Title block, not as
\* the printed line
TextUnderlinesMatchBlockText ==
  ExportsText =>
    \A i \in 1..Len(result.sections) :
      LET section == result.sections[i]
          first == FirstTextLine(i)
      IN  /\ section.type = "title" =>
               /\ TextLines[first] = toUpperCase(section.content)
               /\ IsRunOf(TextLines[first + 1], "=")
               /\ Len(TextLines[first + 1]) = Len(section.content)
          /\ section.type = "chapter" =>
               /\ TextLines[first] = <<>> /\ TextLines[first + 1] = <<>>
               /\ TextLines[first + 2] = section.content
               /\ IsRunOf(TextLines[first + 3], "-")
               /\ Len(TextLines[first + 3]) = Len(section.content)
          /\ (section.type = "image" /\ section.metadata.filename # Undefined) =>
               TextLines[first] = <<"[", "I", "m", "a", "g", "e", ":", " ">> \o section.metadata.filename \o <<"]">>


(***************************************************************************)
(* Escaping in the component export.                                       *)
(***************************************************************************)
\* the calls that export a component
ExportsJSX == result.op = "export" /\ result.format = "jsx"

\* the entity of a character the component export escapes, the character
\* itself otherwise
EntityOf(c) ==
  CASE c = "&" -> <<"&", "a", "m", "p", ";">>
    [] c = "<" -> <<"&", "l", "t", ";">>
    [] c = ">" -> <<"&", "g", "t", ";">>
    [] c = "\"" -> <<"&", "q", "u", "o", "t", ";">>
    [] c = "{" -> <<"&", "#", "1", "2", "3", ";">>
    [] c = "}" -> <<"&", "#", "1", "2", "5", ";">>
    [] OTHER -> <<c>>

\* s with every character replaced by its entity, once
EntityText(s) == Concat([k \in 1..Len(s) |-> EntityOf(s[k])])

\* the number of lines the component export emits for a section
JSXLineCount(section, images) == Cardinality(PositionsOf(JSXSection(section, images), "\n"))

\* the number of the line of the component body that holds the text of
\* section i: the line after the opening tag
RECURSIVE JSXLinesBefore(_)
JSXLinesBefore(i) ==
  IF i = 1 THEN 0
  ELSE JSXLinesBefore(i - 1) + JSXLineCount(result.sections[i - 1], result.uploadedImages)

EmbeddedText(i) == Suffix(split(Body, "\n")[JSXLinesBefore(i) + 2], Len(<<" ", " ", " ", " ", " ", " ", " ", " ">>) + 1)

\* C27: component-export escaping -- in the JSX of exportAsJSX the text of
\* every Title, Chapter and Paragraph block is embedded with each &, <, >,
\* ", { and } replaced by its entity, & first, so that no & of an entity is
\* escaped a second time; the embedded text holds none of the raw characters
\* <, >, ", { and }.
C27_JSXEscapesBlockText ==
  ExportsJSX =>
    \A i \in 1..Len(result.sections) :
      result.sections[i].type \in {"title", "chapter", "paragraph"} =>
        /\ EmbeddedText(i) = EntityText(result.sections[i].content)
        /\ \A c \in {"<", ">", "\"", "{", "}"} : PositionsOf(EmbeddedText(i), c) = {}

\* a paragraph that holds all six characters has been exported as a
\* component
C27_Witness ==
  /\ ExportsJSX /\ result.sections = HeadingSections
  /\ result.sections[4].content = BracesText
  /\ EmbeddedText(4) = <<"&", "#", "1", "2", "3", ";", "a", "&", "#", "1", "2", "5", ";", " ", "&", "a", "m", "p", ";", " ", "&", "l", "t", ";", "b", "&", "g", "t", ";", " ", "&", "q", "u", "o", "t", ";", "c", "&", "q", "u", "o", "t", ";">>


(***************************************************************************)
(* Independence of the blocks at render time.                              *)
(***************************************************************************)
\* what the renderer of the last call returns for sections, with the
\* template and the image map of that call
RenderOf(sections) ==
  IF result.op = "renderToHTML"
  THEN renderToHTML(result.template, sections, result.uploadedImages)
  ELSE ExportResult(result.format, result.template, sections, result.uploadedImages).file.content.body

FooterLen == IF result.format = "html" THEN Len(<<"<", "/", "d", "i", "v", ">">>) ELSE 0

\* a rendering without the opening and the closing tag of its container
InsideWrapper(rendering) == SubSeq(rendering, HeaderLen + 1, Len(rendering) - FooterLen)

Separator == IF result.format \in {"markdown", "txt"} THEN <<"\n", "\n">> ELSE <<>>

\* C28: per-block independence of rendering -- in every output format the
\* fragment of a block depends on that block only (and the image map), not
\* on its index or its neighbours: for non-empty A and B, render(A ++ B) is
\* render(A), the separator of the format, then render(B), inside the one
\* wrapper for HTML and the component export.
C28_RenderingIsPerBlock ==
  (result.op # "none" /\ result.error = "none") =>
    \A k \in 1..(Len(result.sections) - 1) :
      InsideWrapper(Body) =
        InsideWrapper(RenderOf(SubSeq(result.sections, 1, k))) \o Separator
        \o InsideWrapper(RenderOf(SubSeq(result.sections, k + 1, Len(result.sections))))

\* the block sequence "My Book" has been exported as plain text: the chapter
\* in third place is printed as a chapter in first place is
C28_Witness ==
  /\ result.op = "export" /\ result.format = "txt" /\ result.sections = MyBookSections
  /\ Body = RenderOf(SubSeq(MyBookSections, 1, 2)) \o <<"\n", "\n">> \o RenderOf(SubSeq(MyBookSections, 3, 6))
  /\ Body = <<"M", "Y", " ", "B", "O", "O", "K", "\n", "=", "=", "=", "=", "=", "=", "=", "\n", "\n", "\n", "\n", "\n", "\n", "C", "h", "a", "p", "t", "e", "r", " ", "1", "\n", "-", "-", "-", "-", "-", "-", "-", "-", "-", "\n", "\n", "T", "h", "e", " ", "S", "t", "a", "r", "t", "\n", "\n", "\n", "\n", "S", "o", "m", "e", " ", "p", "r", "o", "s", "e", " ", "h", "e", "r", "e", ".">>


(***************************************************************************)
(* Lines and blocks.                                                       *)
(***************************************************************************)
\* the manuscript with every line but line i and the line after it emptied
LineAndNextOnly(i) == [j \in 1..Len(Lines) |-> IF j \in {i, i + 1} THEN Lines[j] ELSE <<>>]

\* C29: one block per physical line -- formatText returns as many blocks as
\* the input has lines, the number of line feeds plus one; block i is derived
\* from line i, and from line i+1 where the title heuristic looks at it, and
\* from no other line; every blank line yields exactly one Spacer and no
\* line is skipped.
C29_OneBlockPerLine ==
  Formatted =>
    /\ Len(blocks) = Cardinality(PositionsOf(text, "\n")) + 1
    /\ \A i \in 1..Len(blocks) :
         /\ blocks[i] = FormatLine(LineAndNextOnly(i), i - 1)
         /\ IsBlankLine(i) => blocks[i].type = "spacer"
    /\ Cardinality({i \in 1..Len(blocks) : blocks[i].type = "spacer"})
         = Cardinality({i \in 1..Len(Lines) : IsBlankLine(i)})

\* a line between two blank lines has been detected: three blocks for two
\* line feeds, a Spacer for each blank line
C29_Witness ==
  /\ Formatted /\ text = <<"\n", "a", "\n">>
  /\ Kinds(blocks) = <<"spacer", "title", "spacer">>


\* C30: paragraph normalisation is idempotent -- normalising the text of a
\* Paragraph block of formatText a second time leaves it as it is:
\* formatParagraph(formatParagraph(s)) = formatParagraph(s) for every trimmed
\* line s, lines with adjacent spaced hyphens and with unpaired quotes
\* included.
C30_NormalisationIdempotent ==
  Formatted =>
    \A i \in ParagraphBlocks : formatParagraph(blocks[i].content) = blocks[i].content

\* a second normalisation changes a Paragraph only where a spaced plain
\* hyphen is left in it
IdempotentButSpacedHyphen ==
  Formatted =>
    \A i \in ParagraphBlocks :
      ~includes(blocks[i].content, <<" ", "-", " ">>) =>
        formatParagraph(blocks[i].content) = blocks[i].content

====
